---- MODULE Spec2Model ----
(***************************************************************************)
(* A model of vague-search: the intermediate patricia trie               *)
(* (vague-search-index), its compilation into the three arrays of the     *)
(* compiled trie (vague-search-core), the exact search and the            *)
(* approximate (Damerau-Levenshtein) search of the query binary.          *)
(*                                                                         *)
(* Conventions.  A character is its code point (a natural number), a      *)
(* Rust `String`/`&str` is the sequence of its code points; where the     *)
(* code works on bytes (String::len, split_off, the characters array)     *)
(* the UTF-8 encoding is computed.  Option<NonZeroU32> and                *)
(* Option<IndexNodeNonZero> are naturals with 0 for None.  Indices kept   *)
(* in the data are 0-based as in the code; TLA+ sequences are 1-based.    *)
(***************************************************************************)
EXTENDS Integers, Sequences, FiniteSets, TLC

(***************************************************************************)
(* Bounds of the model.                                                    *)
(***************************************************************************)
\* Number of insertions into the intermediate trie.
MaxWords == 3
\* Length (in characters) of an inserted word.
MaxWordLen == 3
\* Length (in characters) of a query.
MaxQueryLen == 2
\* Largest searching distance.
MaxDist == 2

SeqsUpTo(S, n) == UNION {[1..k -> S] : k \in 0..n}

\* The inserted words: over 'a' and 'c' (two apart: a range with a gap), the
\* longest ones beginning with "ac", and words that begin with the two-byte
\* character U+00E9.
DictWords ==
    {w \in SeqsUpTo({97, 99}, MaxWordLen) \ {<<>>} :
        Len(w) > 2 => (w[1] = 97 /\ w[2] = 99)}
    \cup {<<233>>, <<233, 97>>, <<233, 99>>}
\* The queries: over 'a', 'b' ('b' hits the gap of the range) and 'c', and
\* two queries with the two-byte character.
QueryWords == SeqsUpTo({97, 98, 99}, MaxQueryLen) \cup {<<233>>, <<233, 97>>}

(***************************************************************************)
(* Sequence helpers.                                                       *)
(***************************************************************************)
Min2(a, b) == IF a <= b THEN a ELSE b
Last(s) == s[Len(s)]
Front(s) == SubSeq(s, 1, Len(s) - 1)
\* s[from..to) with 0-based bounds, as a Rust slice.
Slice(s, from, to) == SubSeq(s, from + 1, to)
Reverse(s) == [i \in 1..Len(s) |-> s[Len(s) + 1 - i]]
Repeat(x, n) == [i \in 1..n |-> x]
RECURSIVE Concat(_)
Concat(ss) ==
    IF Len(ss) = 0 THEN <<>>
    ELSE IF Len(ss) = 1 THEN ss[1]
    ELSE Concat(SubSeq(ss, 1, Len(ss) \div 2))
             \o Concat(SubSeq(ss, (Len(ss) \div 2) + 1, Len(ss)))
\* F applied to v: names, in F, a value computed once.
Let(v, F(_)) == F(v)
\* F applied to v, with v computed before F is entered.
Then(v, F(_)) == IF v = v THEN F(v) ELSE F(v)

(***************************************************************************)
(* UTF-8: the bytes of a character and of a string, and back.              *)
(***************************************************************************)
len_utf8(c) == IF c < 128 THEN 1 ELSE IF c < 2048 THEN 2 ELSE IF c < 65536 THEN 3 ELSE 4

Utf8Bytes(c) ==
    IF c < 128 THEN <<c>>
    ELSE IF c < 2048 THEN <<192 + (c \div 64), 128 + (c % 64)>>
    ELSE IF c < 65536
         THEN <<224 + (c \div 4096), 128 + ((c \div 64) % 64), 128 + (c % 64)>>
    ELSE <<240 + (c \div 262144), 128 + ((c \div 4096) % 64),
           128 + ((c \div 64) % 64), 128 + (c % 64)>>

\* str::as_bytes
StrBytes(s) == Concat([i \in 1..Len(s) |-> Utf8Bytes(s[i])])
\* str::len: the length in bytes
StrLen(s) == Len(StrBytes(s))

\* The characters of a well-formed UTF-8 byte sequence (str::chars).
RECURSIVE Utf8Chars(_)
Utf8Chars(b) ==
    IF b = <<>> THEN <<>>
    ELSE LET h == b[1] IN
         IF h < 128 THEN <<h>> \o Utf8Chars(Tail(b))
         ELSE IF h < 224
              THEN <<(h - 192) * 64 + (b[2] - 128)>> \o Utf8Chars(SubSeq(b, 3, Len(b)))
         ELSE IF h < 240
              THEN <<(h - 224) * 4096 + (b[2] - 128) * 64 + (b[3] - 128)>>
                   \o Utf8Chars(SubSeq(b, 4, Len(b)))
         ELSE <<(h - 240) * 262144 + (b[2] - 128) * 4096 + (b[3] - 128) * 64 + (b[4] - 128)>>
              \o Utf8Chars(SubSeq(b, 5, Len(b)))

\* str::is_char_boundary: byte index i starts a character of s or is its end.
is_char_boundary(s, i) == \E k \in 0..Len(s) : StrLen(SubSeq(s, 1, k)) = i
\* The number of characters of s that lie before byte index i (a boundary).
CharsBefore(s, i) == CHOOSE k \in 0..Len(s) : StrLen(SubSeq(s, 1, k)) = i

(***************************************************************************)
(* The intermediate patricia trie (vague-search-index).                    *)
(* A node is [letters, children, freq]; a panic of the code is the value   *)
(* Panicked.                                                               *)
(***************************************************************************)
Panicked == [panic |-> TRUE]
IsPanic(x) == "panic" \in DOMAIN x

create_empty == [letters |-> <<>>, children |-> <<>>, freq |-> 0]

\* The position (in characters) of the first difference, -1 for None.
index_difference(first, second) ==
    LET n == Min2(Len(first), Len(second))
        D == {i \in 1..n : first[i] # second[i]}
    IN IF D = {} THEN -1 ELSE (CHOOSE i \in D : \A j \in D : i <= j) - 1

\* slice::binary_search_by on the children's first characters (sorted,
\* pairwise different): Ok(index) or Err(insertion index), 0-based.
binary_search_children(children, c) ==
    LET F == {i \in 1..Len(children) : children[i].letters[1] = c}
    IN IF F # {}
       THEN [ok |-> TRUE, r |-> (CHOOSE i \in F : TRUE) - 1]
       ELSE [ok |-> FALSE,
             r |-> Cardinality({i \in 1..Len(children) : children[i].letters[1] < c})]

\* `ind` is used as a byte index by String::split_off and str::split_at,
\* which panic when it is not on a character boundary.
divide_node(self, word, ind, frequency) ==
    IF ~is_char_boundary(self.letters, ind) \/ ~is_char_boundary(word, ind)
    THEN Panicked
    ELSE LET k == CharsBefore(self.letters, ind)
             kw == CharsBefore(word, ind)
             second_part_node == [letters |-> SubSeq(self.letters, k + 1, Len(self.letters)),
                                  children |-> self.children,
                                  freq |-> self.freq]
             first_letters == SubSeq(self.letters, 1, k)
             second_word == SubSeq(word, kw + 1, Len(word))
         IN IF second_word = <<>>
            THEN [letters |-> first_letters, children |-> <<second_part_node>>,
                  freq |-> frequency]
            ELSE LET new_word_node == [letters |-> second_word, children |-> <<>>,
                                       freq |-> frequency]
                     sec_first_char == second_part_node.letters[1]
                     new_first_char == new_word_node.letters[1]
                 IN IF new_first_char < sec_first_char
                    THEN [letters |-> first_letters,
                          children |-> <<new_word_node, second_part_node>>, freq |-> 0]
                    ELSE IF new_first_char = sec_first_char
                    THEN Panicked   \* unreachable!()
                    ELSE [letters |-> first_letters,
                          children |-> <<second_part_node, new_word_node>>, freq |-> 0]

\* [insrt, node]: whether the word was inserted at this node, and the node.
divide(self, word, frequency) ==
    LET index_diff == index_difference(self.letters, word) IN
    IF index_diff # -1
    THEN [insrt |-> TRUE, node |-> divide_node(self, word, index_diff, frequency)]
    ELSE IF StrLen(word) < StrLen(self.letters)
    THEN [insrt |-> TRUE, node |-> divide_node(self, word, StrLen(word), frequency)]
    ELSE IF StrLen(word) = StrLen(self.letters)
    THEN [insrt |-> TRUE, node |-> [self EXCEPT !.freq = frequency]]
    ELSE [insrt |-> FALSE, node |-> self]

create_and_insert_at(self, index, word, frequency) ==
    LET child == [letters |-> word, children |-> <<>>, freq |-> frequency]
    IN [self EXCEPT !.children =
            SubSeq(self.children, 1, index) \o <<child>>
            \o SubSeq(self.children, index + 1, Len(self.children))]

\* One turn of the loop of insert, on `parent`, and the turns below it.
RECURSIVE insert_loop(_, _, _)
insert_loop(parent, word_cpy, frequency) ==
    LET res == binary_search_children(parent.children, word_cpy[1]) IN
    IF res.ok
    THEN LET child == parent.children[res.r + 1]
             d == divide(child, word_cpy, frequency)
         IN IF d.insrt
            THEN IF IsPanic(d.node) THEN Panicked
                 ELSE [parent EXCEPT !.children[res.r + 1] = d.node]
            ELSE LET rest == SubSeq(word_cpy, Len(child.letters) + 1, Len(word_cpy))
                     sub == insert_loop(child, rest, frequency)
                 IN IF IsPanic(sub) THEN Panicked
                    ELSE [parent EXCEPT !.children[res.r + 1] = sub]
    ELSE create_and_insert_at(parent, res.r, word_cpy, frequency)

insert(self, word, frequency) ==
    IF word = <<>> THEN self ELSE insert_loop(self, word, frequency)


(***************************************************************************)
(* Nodes of the compiled trie (vague-search-core, trie/trie_node.rs).      *)
(* A node is [nb_siblings_with_flags, node_union].  The header word is a   *)
(* u32, kept as the set of the positions (0 the lowest, 31 the highest) of *)
(* its one-bits.                                                           *)
(***************************************************************************)
\* The u32 of a natural number below 2^31.
U32(n) == {i \in 0..30 : (n \div (2 ^ i)) % 2 = 1}
\* The natural number of a u32 below 2^31.
RECURSIVE U32Value(_)
U32Value(w) ==
    IF w = {} THEN 0
    ELSE Let(CHOOSE i \in w : TRUE, LAMBDA i : (2 ^ i) + U32Value(w \ {i}))
\* a & b, a | b, a << k, a >> k, a.trailing_zeros() on u32
BitAnd(a, b) == a \cap b
BitOr(a, b) == a \cup b
Shl(a, k) == {i + k : i \in {x \in a : x + k <= 31}}
Shr(a, k) == {i - k : i \in {x \in a : x >= k}}
trailing_zeros(a) == IF a = {} THEN 32 ELSE CHOOSE i \in a : \A x \in a : i <= x

MASK_NODE_TYPE == 30..31
\* A mask of the length that shares the bit 17 with the mask of the siblings.
MASK_PAT_STR_LENGTH_from_bit_17 == 17..28
MASK_PAT_STR_LENGTH == 18..29
MASK_NB_SIBLINGS == 0..17

NODE_TYPE_NAIVE == {}
NODE_TYPE_PATRICIA == {30}
NODE_TYPE_RANGE == {31}

\* (value << mask.trailing_zeros()) & mask
value_to_mask(value, mask) == BitAnd(Shl(U32(value), trailing_zeros(mask)), mask)
\* (flags & mask) >> mask.trailing_zeros()
get_masked_flags(flags, mask) == U32Value(Shr(BitAnd(flags, mask), trailing_zeros(mask)))

\* The nodes the constructors return where their debug assertions pass or
\* are compiled out.
new_naive(data, nb_siblings) ==
    [nb_siblings_with_flags |->
         BitOr(NODE_TYPE_NAIVE, value_to_mask(nb_siblings, MASK_NB_SIBLINGS)),
     node_union |-> data]

new_patricia(data, nb_siblings, str_len) ==
    [nb_siblings_with_flags |->
         BitOr(BitOr(NODE_TYPE_PATRICIA, value_to_mask(nb_siblings, MASK_NB_SIBLINGS)),
               value_to_mask(str_len, MASK_PAT_STR_LENGTH)),
     node_union |-> data]

new_range(data, nb_siblings) ==
    [nb_siblings_with_flags |->
         BitOr(NODE_TYPE_RANGE, value_to_mask(nb_siblings, MASK_NB_SIBLINGS)),
     node_union |-> data]

\* The variant of the node: "Naive", "Patricia" or "Range"; a header of
\* both type bits is unreachable_unchecked in the code.
node_value(node) ==
    Let(BitAnd(node.nb_siblings_with_flags, MASK_NODE_TYPE), LAMBDA t :
        IF t = NODE_TYPE_NAIVE THEN "Naive"
        ELSE IF t = NODE_TYPE_PATRICIA THEN "Patricia"
        ELSE IF t = NODE_TYPE_RANGE THEN "Range"
        ELSE "unreachable")

\* start_index..end_index of the characters of a patricia node
patricia_range(node) ==
    LET pat_str_len == get_masked_flags(node.nb_siblings_with_flags, MASK_PAT_STR_LENGTH)
    IN [start |-> node.node_union.start_index,
        end |-> node.node_union.start_index + pat_str_len]

nb_siblings(node) == get_masked_flags(node.nb_siblings_with_flags, MASK_NB_SIBLINGS)

(***************************************************************************)
(* Construction of the compiled trie (trie/from_trie.rs).                  *)
(* A trie under construction is [nodes, chars, ranges]; chars is the       *)
(* UTF-8 byte sequence of the characters array.                            *)
(***************************************************************************)
\* The placeholder of a first-child index not yet known: u32::MAX, all bits
\* set, written as the 32-bit integer with that bit pattern.
dummy_index == -1

SEARCH_LIMIT == 2048

\* add_chars with a search window one byte shorter.
add_chars_shorter_window(big_string, chars) ==
    LET cb == StrBytes(chars)
        n == Len(cb)
        nb_bytes_searched == Min2(SEARCH_LIMIT - 1, Len(big_string))
        search_window_index == Len(big_string) - nb_bytes_searched
        \* the windows of n bytes of the search window, at most SEARCH_LIMIT
        nb_windows == IF nb_bytes_searched >= n
                      THEN Min2(nb_bytes_searched - n + 1, SEARCH_LIMIT) ELSE 0
        F == {w \in 0..(nb_windows - 1) :
                 \A k \in 1..n : big_string[search_window_index + w + k] = cb[k]}
        found == F # {}
        pos == IF found
               THEN search_window_index + (CHOOSE w \in F : \A v \in F : w <= v)
               ELSE Len(big_string)
    IN [big_string |-> IF found THEN big_string ELSE big_string \o cb,
        start |-> pos,
        end |-> pos + n]

\* [big_string, start, end]: the array after the call and the returned range.
add_chars(big_string, chars) ==
    LET cb == StrBytes(chars)
        n == Len(cb)
        nb_bytes_searched == Min2(SEARCH_LIMIT, Len(big_string))
        search_window_index == Len(big_string) - nb_bytes_searched
        \* the windows of n bytes of the search window, at most SEARCH_LIMIT
        nb_windows == IF nb_bytes_searched >= n
                      THEN Min2(nb_bytes_searched - n + 1, SEARCH_LIMIT) ELSE 0
        F == {w \in 0..(nb_windows - 1) :
                 \A k \in 1..n : big_string[search_window_index + w + k] = cb[k]}
        found == F # {}
        pos == IF found
               THEN search_window_index + (CHOOSE w \in F : \A v \in F : w <= v)
               ELSE Len(big_string)
    IN [big_string |-> IF found THEN big_string ELSE big_string \o cb,
        start |-> pos,
        end |-> pos + n]

\* add_range giving the second character of the interval as its first.
add_range_from_second_char(trie_ranges, nodes, range_chars) ==
    LET C == {range_chars[i] : i \in 1..Len(range_chars)}
        min == CHOOSE c \in C : \A d \in C : c <= d
        max == CHOOSE c \in C : \A d \in C : c >= d
        range_len == max - min + 1
        start == Len(trie_ranges)
        elem(c) ==
            IF c \in C
            THEN LET i == CHOOSE j \in 1..Len(range_chars) :
                              /\ range_chars[j] = c
                              /\ \A k \in (j + 1)..Len(range_chars) : range_chars[k] # c
                 IN [index_first_child |-> dummy_index, word_freq |-> nodes[i].freq]
            ELSE [index_first_child |-> 0, word_freq |-> 0]
    IN [ranges |-> trie_ranges \o [k \in 1..range_len |-> elem(min + k - 1)],
        start |-> start,
        end |-> start + range_len,
        first_char |-> min + 1]

\* add_range reserving max - min elements.
add_range_one_short(trie_ranges, nodes, range_chars) ==
    LET C == {range_chars[i] : i \in 1..Len(range_chars)}
        min == CHOOSE c \in C : \A d \in C : c <= d
        max == CHOOSE c \in C : \A d \in C : c >= d
        range_len == max - min
        start == Len(trie_ranges)
        elem(c) ==
            IF c \in C
            THEN LET i == CHOOSE j \in 1..Len(range_chars) :
                              /\ range_chars[j] = c
                              /\ \A k \in (j + 1)..Len(range_chars) : range_chars[k] # c
                 IN [index_first_child |-> dummy_index, word_freq |-> nodes[i].freq]
            ELSE [index_first_child |-> 0, word_freq |-> 0]
    IN [ranges |-> trie_ranges \o [k \in 1..range_len |-> elem(min + k - 1)],
        start |-> start,
        end |-> start + range_len,
        first_char |-> min]

\* [ranges, start, end, first_char]
add_range(trie_ranges, nodes, range_chars) ==
    LET C == {range_chars[i] : i \in 1..Len(range_chars)}
        min == CHOOSE c \in C : \A d \in C : c <= d
        max == CHOOSE c \in C : \A d \in C : c >= d
        range_len == max - min + 1
        start == Len(trie_ranges)
        elem(c) ==
            IF c \in C
            THEN LET i == CHOOSE j \in 1..Len(range_chars) :
                              /\ range_chars[j] = c
                              /\ \A k \in (j + 1)..Len(range_chars) : range_chars[k] # c
                 IN [index_first_child |-> dummy_index, word_freq |-> nodes[i].freq]
            ELSE [index_first_child |-> 0, word_freq |-> 0]
    IN [ranges |-> trie_ranges \o [k \in 1..range_len |-> elem(min + k - 1)],
        start |-> start,
        end |-> start + range_len,
        first_char |-> min]

MAX_DIST_IN_RANGE == 3
char_dist(a, b) == b - a

\* should_add_to_range with a tolerance of 5.
should_add_to_range_tolerance_5(range, cur) ==
    IF range = <<>> THEN FALSE ELSE char_dist(Last(range), cur) <= 5

should_add_to_range(range, cur) ==
    IF range = <<>> THEN FALSE ELSE char_dist(Last(range), cur) <= MAX_DIST_IN_RANGE

\* The plan entries: Simple and Patricia name the child by its 0-based index
\* in the layer, Range names the slice [from, to) of the children.
process_range(cur_range, res_nodes, index_cur_node) ==
    IF Len(cur_range) = 0 THEN [cur_range |-> cur_range, res_nodes |-> res_nodes]
    ELSE IF Len(cur_range) = 1
    THEN [cur_range |-> <<>>,
          res_nodes |-> Append(res_nodes,
              [kind |-> "Simple", node |-> index_cur_node - 1, char |-> cur_range[1]])]
    ELSE [cur_range |-> <<>>,
          res_nodes |-> Append(res_nodes,
              [kind |-> "Range", from |-> index_cur_node - Len(cur_range),
               to |-> index_cur_node, chars |-> cur_range])]

\* The turns i.. of the loop of node_type_heuristic, then its last call.
RECURSIVE heuristic_loop(_, _, _, _)
heuristic_loop(nodes_chars, i, cur_range, res_nodes) ==
    IF i >= Len(nodes_chars)
    THEN process_range(cur_range, res_nodes, Len(nodes_chars)).res_nodes
    ELSE LET chars == nodes_chars[i + 1]
             first_char == chars[1]
             is_one_char == Len(chars) <= 1
         IN IF is_one_char /\ should_add_to_range(cur_range, first_char)
            THEN heuristic_loop(nodes_chars, i + 1, Append(cur_range, first_char), res_nodes)
            ELSE LET p == process_range(cur_range, res_nodes, i) IN
                 IF is_one_char
                 THEN heuristic_loop(nodes_chars, i + 1, <<first_char>>, p.res_nodes)
                 ELSE heuristic_loop(nodes_chars, i + 1, p.cur_range,
                          Append(p.res_nodes,
                                 [kind |-> "Patricia", node |-> i, chars |-> chars]))

node_type_heuristic(nodes_chars) == heuristic_loop(nodes_chars, 0, <<>>, <<>>)

\* The trie with the partial node of one plan entry pushed.
create_partial_node(nb_sibl, heuristic, children, t) ==
    IF heuristic.kind = "Simple"
    THEN [t EXCEPT !.nodes = Append(@, new_naive(
              [index_first_child |-> 0,
               word_freq |-> children[heuristic.node + 1].freq,
               character |-> heuristic.char], nb_sibl))]
    ELSE IF heuristic.kind = "Patricia"
    THEN LET char_range == add_chars(t.chars, heuristic.chars)
             str_len == StrLen(heuristic.chars)
         IN [t EXCEPT !.chars = char_range.big_string,
                      !.nodes = Append(@, new_patricia(
              [index_first_child |-> 0,
               word_freq |-> children[heuristic.node + 1].freq,
               start_index |-> char_range.start], nb_sibl, str_len))]
    ELSE LET r == add_range(t.ranges, Slice(children, heuristic.from, heuristic.to),
                            heuristic.chars)
         IN [t EXCEPT !.ranges = r.ranges,
                      !.nodes = Append(@, new_range(
              [first_char |-> r.first_char, start_index |-> r.start,
               end_index |-> r.end], nb_sibl))]

\* The first index >= current_range_index whose first-child index is set;
\* -1 where the code reaches unreachable_unchecked.
find_next_dummy_range_node(trie_ranges, current_range_index) ==
    LET F == {i \in current_range_index..(Len(trie_ranges) - 1) :
                 trie_ranges[i + 1].index_first_child # 0}
    IN IF F = {} THEN -1 ELSE CHOOSE i \in F : \A j \in F : i <= j

\* finish_current_partial_node looking for the next element from the start
\* of the range at every call.
finish_current_partial_node_from_range_start(t, index_first_child, partial_i, range_i) ==
    LET node == t.nodes[partial_i + 1] IN
    IF node_value(node) # "Range"
    THEN [t |-> [t EXCEPT !.nodes[partial_i + 1].node_union.index_first_child =
                     index_first_child],
          partial_i |-> partial_i + 1, range_i |-> 0]
    ELSE LET n == node.node_union
             cur_i == n.start_index
             next_i == find_next_dummy_range_node(t.ranges, cur_i)
             t2 == [t EXCEPT !.ranges[next_i + 1].index_first_child = index_first_child]
         IN IF next_i + 1 >= n.end_index
            THEN [t |-> t2, partial_i |-> partial_i + 1, range_i |-> 0]
            ELSE [t |-> t2, partial_i |-> partial_i, range_i |-> next_i + 1]

\* [t, partial_i, range_i]; range_i is 0 for None.
finish_current_partial_node(t, index_first_child, partial_i, range_i) ==
    LET node == t.nodes[partial_i + 1] IN
    IF node_value(node) # "Range"
    THEN [t |-> [t EXCEPT !.nodes[partial_i + 1].node_union.index_first_child =
                     index_first_child],
          partial_i |-> partial_i + 1, range_i |-> 0]
    ELSE LET n == node.node_union
             cur_i == IF range_i = 0 THEN n.start_index ELSE range_i
             next_i == find_next_dummy_range_node(t.ranges, cur_i)
             t2 == [t EXCEPT !.ranges[next_i + 1].index_first_child = index_first_child]
         IN IF next_i + 1 >= n.end_index
            THEN [t |-> t2, partial_i |-> partial_i + 1, range_i |-> 0]
            ELSE [t |-> t2, partial_i |-> partial_i, range_i |-> next_i + 1]

\* push_partial_nodes with each node counted among its right siblings.
RECURSIVE push_partial_nodes_counting_itself(_, _, _, _)
push_partial_nodes_counting_itself(heuristics, k, children, t) ==
    IF k > Len(heuristics) THEN t
    ELSE Then(create_partial_node(Len(heuristics) - k + 1, heuristics[k], children, t),
              LAMBDA t1 : push_partial_nodes_counting_itself(heuristics, k + 1, children, t1))

\* The partial nodes of the plan entries k.. pushed in order.
RECURSIVE push_partial_nodes(_, _, _, _)
push_partial_nodes(heuristics, k, children, t) ==
    IF k > Len(heuristics) THEN t
    ELSE Then(create_partial_node(Len(heuristics) - k, heuristics[k], children, t),
              LAMBDA t1 : push_partial_nodes(heuristics, k + 1, children, t1))

RECURSIVE fill_from_trie(_, _)
RECURSIVE fill_children(_, _, _, _, _)

\* The turns k.. of the second loop of fill_from_trie.
fill_children(children, k, t, partial_i, range_i) ==
    IF k > Len(children) THEN t
    ELSE Then(fill_from_trie(children[k], t), LAMBDA t1 :
         Then(finish_current_partial_node(t1,
                  IF Len(t1.nodes) = Len(t.nodes) THEN 0 ELSE Len(t.nodes),
                  partial_i, range_i), LAMBDA f :
         fill_children(children, k + 1, f.t, f.partial_i, f.range_i)))

fill_from_trie(node, t) ==
    Then(node_type_heuristic([i \in 1..Len(node.children) |-> node.children[i].letters]),
         LAMBDA heuristics :
    Then(push_partial_nodes(heuristics, 1, node.children, t), LAMBDA t1 :
    fill_children(node.children, 1, t1, Len(t1.nodes) - Len(heuristics), 0)))

\* impl From<N> for CompiledTrie
CompiledTrie_from(root) ==
    fill_from_trie(root, [nodes |-> <<>>, chars |-> <<>>, ranges |-> <<>>])


(***************************************************************************)
(* The compiled trie container (trie/compiled_trie.rs).  A slice of the    *)
(* nodes array is [from, to): the 0-based indices from..to-1.              *)
(***************************************************************************)
EmptySlice == [from |-> 0, to |-> 0]
SliceLen(sl) == sl.to - sl.from
SliceIsEmpty(sl) == sl.to <= sl.from

get_siblings_unchecked(trie, index) ==
    [from |-> index, to |-> index + nb_siblings(trie.nodes[index + 1]) + 1]

\* [some, slice]: None only when the nodes array is empty.
get_root_siblings(trie) ==
    IF trie.nodes = <<>> THEN [some |-> FALSE, slice |-> EmptySlice]
    ELSE [some |-> TRUE, slice |-> get_siblings_unchecked(trie, 0)]

get_siblings(trie, index) == get_siblings_unchecked(trie, index)

\* The characters of chars[start..end).
get_chars(trie, start, end) ==
    IF start >= end THEN <<>> ELSE Utf8Chars(Slice(trie.chars, start, end))

\* The character that begins at byte `index`.
get_char_unchecked(trie, index) == Utf8Chars(Slice(trie.chars, index, Len(trie.chars)))[1]

get_range(trie, start, end) ==
    IF start >= end THEN <<>> ELSE Slice(trie.ranges, start, end)

get_range_element_unchecked(trie, start, offset) == trie.ranges[start + offset + 1]

(***************************************************************************)
(* Exact search (src/search_exact.rs).                                     *)
(***************************************************************************)
\* compare_keys answering Less only beyond the character after the range
\* (the comparison of src/levenshtein.rs, which the driver does not call).
compare_keys_inclusive_end(trie_node, character, trie) ==
    LET v == node_value(trie_node)
        n == trie_node.node_union
        cmp(a, b) == IF a < b THEN "Less" ELSE IF a = b THEN "Equal" ELSE "Greater"
    IN IF v = "Naive" THEN cmp(n.character, character)
       ELSE IF v = "Patricia"
       THEN cmp(get_char_unchecked(trie, patricia_range(trie_node).start), character)
       ELSE LET range_len == n.end_index - n.start_index
            IN IF n.first_char > character THEN "Greater"
               ELSE IF n.first_char + range_len < character THEN "Less"
               ELSE "Equal"

compare_keys(trie_node, character, trie) ==
    LET v == node_value(trie_node)
        n == trie_node.node_union
        cmp(a, b) == IF a < b THEN "Less" ELSE IF a = b THEN "Equal" ELSE "Greater"
    IN IF v = "Naive" THEN cmp(n.character, character)
       ELSE IF v = "Patricia"
       THEN cmp(get_char_unchecked(trie, patricia_range(trie_node).start), character)
       ELSE LET range_len == n.end_index - n.start_index
            IN IF n.first_char > character THEN "Greater"
               ELSE IF n.first_char + range_len <= character THEN "Less"
               ELSE "Equal"

\* The loop of search_child: whether it returned a node, and base.
RECURSIVE search_child_loop(_, _, _, _, _)
search_child_loop(children, first_char, trie, size, base) ==
    IF size <= 1 THEN [found |-> FALSE, base |-> base]
    ELSE Let(compare_keys(trie.nodes[children.from + base + (size \div 2) + 1],
                          first_char, trie),
             LAMBDA c :
                 IF c = "Equal" THEN [found |-> TRUE, base |-> base + (size \div 2)]
                 ELSE search_child_loop(children, first_char, trie,
                                        size - (size \div 2),
                                        IF c = "Less" THEN base + (size \div 2) ELSE base))

\* The 0-based index in the nodes array of the matching child, -1 for None.
\* `children` is not empty (the code reads it unchecked).
search_child(children, first_char, trie) ==
    Let(search_child_loop(children, first_char, trie, SliceLen(children), 0),
        LAMBDA l :
            IF l.found THEN children.from + l.base
            ELSE IF compare_keys(trie.nodes[children.from + l.base + 1], first_char, trie)
                      = "Equal"
                 THEN children.from + l.base
                 ELSE -1)

\* The match on the value of the found child: whether the search goes on,
\* and (index_first_child, word_freq, substr_len), the length in characters.
search_exact_child_value(trie, word, child) ==
    IF node_value(child) = "Naive"
    THEN [goes_on |-> TRUE,
          index_first_child |-> child.node_union.index_first_child,
          word_freq |-> child.node_union.word_freq,
          substr_len |-> 1]
    ELSE IF node_value(child) = "Patricia"
    THEN Let(get_chars(trie, patricia_range(child).start, patricia_range(child).end),
             LAMBDA chars :
                 [goes_on |-> /\ Len(chars) <= Len(word)
                              /\ SubSeq(word, 1, Len(chars)) = chars,
                  index_first_child |-> child.node_union.index_first_child,
                  word_freq |-> child.node_union.word_freq,
                  substr_len |-> Len(chars)])
    ELSE Let(get_range_element_unchecked(trie, child.node_union.start_index,
                                         word[1] - child.node_union.first_char),
             LAMBDA range :
                 [goes_on |-> TRUE,
                  index_first_child |-> range.index_first_child,
                  word_freq |-> range.word_freq,
                  substr_len |-> 1])

\* The frequency found, 0 for None.  `word` is consumed by whole characters:
\* each byte length the code slices by is the length of a prefix of `word`.
RECURSIVE search_exact_children(_, _, _)
search_exact_children(trie, word, children) ==
    IF word = <<>> THEN 0
    ELSE Let(search_child(children, word[1], trie), LAMBDA ci :
         IF ci = -1 THEN 0
         ELSE Let(search_exact_child_value(trie, word, trie.nodes[ci + 1]), LAMBDA m :
              IF ~m.goes_on THEN 0
              ELSE IF m.substr_len >= Len(word) THEN m.word_freq
              ELSE IF m.index_first_child = 0 THEN 0
              ELSE search_exact_children(trie,
                                         SubSeq(word, m.substr_len + 1, Len(word)),
                                         get_siblings(trie, m.index_first_child))))

search_exact(trie, word) ==
    LET roots == get_root_siblings(trie)
    IN IF ~roots.some THEN 0 ELSE search_exact_children(trie, word, roots.slice)


(***************************************************************************)
(* The layer stack (src/layer_stack.rs): [elements, layers, word].         *)
(***************************************************************************)
EmptyLayerStack == [elements |-> <<>>, layers |-> <<>>, word |-> <<>>]

\* LayerStack::clear: the word is left as it is.
clear(ls) == [ls EXCEPT !.elements = <<>>, !.layers = <<>>]

get_layers_word(ls) == ls.word

\* layer_char is -1 for None.  The new layer is the last `size` elements.
push_layer(ls, layer_char, size) ==
    [elements |-> ls.elements \o Repeat(0, size),
     layers |-> Append(ls.layers, size),
     word |-> IF layer_char # -1 THEN Append(ls.word, layer_char) ELSE ls.word]

\* pop_layer leaving the elements of the popped layer in place.
pop_layer_keeps_elements(ls) ==
    IF ls.layers # <<>>
    THEN [elements |-> ls.elements,
          layers |-> Front(ls.layers),
          word |-> IF ls.word = <<>> THEN <<>> ELSE Front(ls.word)]
    ELSE ls

\* What pop_layer returns: whether a layer was popped.
pop_layer_popped(ls) == ls.layers # <<>>

pop_layer(ls) ==
    IF ls.layers # <<>>
    THEN [elements |-> SubSeq(ls.elements, 1, Len(ls.elements) - Last(ls.layers)),
          layers |-> Front(ls.layers),
          word |-> IF ls.word = <<>> THEN <<>> ELSE Front(ls.word)]
    ELSE ls

\* Whether fetch_layer returns Some.
fetch_layer_is_some(ls) == ls.layers # <<>>

\* The last layer; <<>> for None (a layer of the search is never empty).
fetch_layer(ls) ==
    IF ls.layers # <<>>
    THEN SubSeq(ls.elements, Len(ls.elements) - Last(ls.layers) + 1, Len(ls.elements))
    ELSE <<>>

\* fetch_last_3_layers taking the size of the current layer for the last one.
fetch_last_3_layers_one_size(ls) ==
    LET n == Len(ls.layers)
        nb_elements == Len(ls.elements)
    IN IF n >= 3
       THEN LET i_cur_layer == nb_elements - ls.layers[n]
                i_last_layer == i_cur_layer - ls.layers[n]
                i_parent_layer == i_last_layer - ls.layers[n - 2]
            IN <<[from |-> i_cur_layer, to |-> nb_elements],
                 [from |-> i_last_layer, to |-> i_cur_layer],
                 [from |-> i_parent_layer, to |-> i_last_layer]>>
       ELSE IF n = 2
       THEN LET i_cur_layer == nb_elements - ls.layers[2]
                i_last_layer == i_cur_layer - ls.layers[2]
            IN <<[from |-> i_cur_layer, to |-> nb_elements],
                 [from |-> i_last_layer, to |-> i_cur_layer],
                 EmptySlice>>
       ELSE IF n = 1
       THEN <<[from |-> 0, to |-> nb_elements], EmptySlice, EmptySlice>>
       ELSE <<EmptySlice, EmptySlice, EmptySlice>>

\* The three slices as 0-based [from, to) ranges of `elements`:
\* <<cur_layer, last_layer, parent_layer>>.
fetch_last_3_layers(ls) ==
    LET n == Len(ls.layers)
        nb_elements == Len(ls.elements)
    IN IF n >= 3
       THEN LET i_cur_layer == nb_elements - ls.layers[n]
                i_last_layer == i_cur_layer - ls.layers[n - 1]
                i_parent_layer == i_last_layer - ls.layers[n - 2]
            IN <<[from |-> i_cur_layer, to |-> nb_elements],
                 [from |-> i_last_layer, to |-> i_cur_layer],
                 [from |-> i_parent_layer, to |-> i_last_layer]>>
       ELSE IF n = 2
       THEN LET i_cur_layer == nb_elements - ls.layers[2]
                i_last_layer == i_cur_layer - ls.layers[1]
            IN <<[from |-> i_cur_layer, to |-> nb_elements],
                 [from |-> i_last_layer, to |-> i_cur_layer],
                 EmptySlice>>
       ELSE IF n = 1
       THEN <<[from |-> 0, to |-> nb_elements], EmptySlice, EmptySlice>>
       ELSE <<EmptySlice, EmptySlice, EmptySlice>>

\* The stack with its last layer overwritten by `layer`.
WriteCurLayer(ls, layer) ==
    [ls EXCEPT !.elements = SubSeq(@, 1, Len(@) - Len(layer)) \o layer]

(***************************************************************************)
(* Approximate search (src/search_approx.rs).                              *)
(* An element of the iteration stack is [node, last_char, range_offset],   *)
(* node the 0-based index of the node; the dummy node (None) is NoneElem.  *)
(* last_char is -1 for None.                                               *)
(***************************************************************************)
DistanceMAX == 65535

NoneElem == [node |-> -1, last_char |-> -1, range_offset |-> 0]

\* `nodes` is a slice of the nodes array.
push_layer_nodes(iter_stack, nodes, last_char) ==
    iter_stack \o <<NoneElem>>
    \o [k \in 1..SliceLen(nodes) |->
            [node |-> nodes.to - k, last_char |-> last_char, range_offset |-> 0]]

push_first_layer(layer_stack, layer_char, char_count) ==
    WriteCurLayer(push_layer(layer_stack, layer_char, char_count + 1),
                  [i \in 1..(char_count + 1) |-> i - 1])

\* compute_layer without the cost of a transposition.
compute_layer_no_transposition(last_layer, parent_layer, word, last_char, cur_trie_char) ==
    LET n == Len(last_layer)
        layer[i \in 0..(n - 1)] ==
            IF i = 0 THEN last_layer[1] + 1
            ELSE Min2(Min2(layer[i - 1] + 1, last_layer[i + 1] + 1),
                      last_layer[i] + (IF word[i] # cur_trie_char THEN 1 ELSE 0))
    IN [k \in 1..n |-> layer[k - 1]]

\* The layer filled from the two layers below it.
compute_layer(last_layer, parent_layer, word, last_char, cur_trie_char) ==
    LET n == Len(last_layer)
        layer[i \in 0..(n - 1)] ==
            IF i = 0 THEN last_layer[1] + 1
            ELSE LET cur_word_char == word[i]
                     diff_character == IF cur_word_char # cur_trie_char THEN 1 ELSE 0
                     insert_cost == layer[i - 1] + 1
                     delete_cost == last_layer[i + 1] + 1
                     replace_cost == last_layer[i] + diff_character
                     trans_cost ==
                         IF /\ parent_layer # <<>>
                            /\ i >= 2
                            /\ last_char # -1
                            /\ word[i - 1] = cur_trie_char
                            /\ cur_word_char = last_char
                         THEN parent_layer[i - 1] + 1
                         ELSE DistanceMAX
                 IN Min2(Min2(insert_cost, delete_cost), Min2(replace_cost, trans_cost))
    IN [k \in 1..n |-> layer[k - 1]]

\* push_layer, the fetch of the last three layers and compute_layer: the
\* sequence shared by the three push_layers_* functions.
PushComputedLayer(layer_stack, word, word_char_count, last_char, ch) ==
    Let(push_layer(layer_stack, ch, word_char_count + 1), LAMBDA ls :
    Let(fetch_last_3_layers(ls), LAMBDA f :
        WriteCurLayer(ls, compute_layer(Slice(ls.elements, f[2].from, f[2].to),
                                        Slice(ls.elements, f[3].from, f[3].to),
                                        word, last_char, ch))))

push_layers_naive(node, iter_elem, word, word_char_count, layer_stack) ==
    PushComputedLayer(layer_stack, word, word_char_count, iter_elem.last_char,
                      node.node_union.character)

\* The turns k.. of the loop of push_layers_patricia: [layer_stack, iter_stack].
RECURSIVE patricia_loop(_, _, _, _, _, _, _)
patricia_loop(pat_chars, k, last_char, word, word_char_count, layer_stack, iter_stack) ==
    IF k > Len(pat_chars) THEN [layer_stack |-> layer_stack, iter_stack |-> iter_stack]
    ELSE patricia_loop(pat_chars, k + 1, pat_chars[k], word, word_char_count,
             PushComputedLayer(layer_stack, word, word_char_count, last_char, pat_chars[k]),
             push_layer_nodes(iter_stack, EmptySlice, -1))

\* push_layers_patricia keeping the sentinel of the last character.
push_layers_patricia_keeps_last_sentinel(node, iter_elem, word, word_char_count, layer_stack, iter_stack, trie) ==
    Let(get_chars(trie, patricia_range(node).start, patricia_range(node).end),
        LAMBDA pat_chars :
            patricia_loop(pat_chars, 1, iter_elem.last_char, word, word_char_count,
                          layer_stack, iter_stack))

push_layers_patricia(node, iter_elem, word, word_char_count, layer_stack, iter_stack, trie) ==
    Let(get_chars(trie, patricia_range(node).start, patricia_range(node).end),
        LAMBDA pat_chars :
    Let(patricia_loop(pat_chars, 1, iter_elem.last_char, word, word_char_count,
                      layer_stack, iter_stack),
        LAMBDA l :
            \* has_multiple_chars
            IF Len(pat_chars) >= 2
            THEN [layer_stack |-> l.layer_stack, iter_stack |-> Front(l.iter_stack)]
            ELSE l))

\* find_next_range_node taking the element it is given, present or not.
find_next_range_node_no_skip(trie_ranges, current_range_index) ==
    IF current_range_index < Len(trie_ranges) THEN current_range_index ELSE -1

\* The index of the next present range element, -1 for None.
find_next_range_node(trie_ranges, current_range_index) ==
    LET F == {i \in current_range_index..(Len(trie_ranges) - 1) :
                 \/ trie_ranges[i + 1].index_first_child # 0
                 \/ trie_ranges[i + 1].word_freq # 0}
    IN IF F = {} THEN -1 ELSE CHOOSE i \in F : \A j \in F : i <= j

is_last_index_of_range(index, range_node) ==
    LET range_len == range_node.end_index - range_node.start_index
    IN index + 1 >= range_len

push_layers_range(node, iter_elem, word, word_char_count, layer_stack, iter_stack, trie) ==
    LET n == node.node_union
        cur_trie_char == n.first_char + iter_elem.range_offset
    IN [layer_stack |-> PushComputedLayer(layer_stack, word, word_char_count,
                                          iter_elem.last_char, cur_trie_char),
        iter_stack |->
            IF ~is_last_index_of_range(iter_elem.range_offset, n)
            THEN LET trie_ranges == get_range(trie, n.start_index, n.end_index)
                     next_possible_i == iter_elem.range_offset + 1
                     next_elem_i == find_next_range_node(trie_ranges, next_possible_i)
                 IN Append(iter_stack, [iter_elem EXCEPT !.range_offset = next_elem_i])
            ELSE iter_stack]

\* [layer_stack, iter_stack] after the layers of the node are pushed.
push_layers_current_node(iter_elem, word, word_char_count, trie, layer_stack, iter_stack) ==
    LET node == trie.nodes[iter_elem.node + 1]
        v == node_value(node)
    IN IF v = "Naive"
       THEN [layer_stack |-> push_layers_naive(node, iter_elem, word, word_char_count,
                                               layer_stack),
             iter_stack |-> iter_stack]
       ELSE IF v = "Patricia"
       THEN push_layers_patricia(node, iter_elem, word, word_char_count, layer_stack,
                                 iter_stack, trie)
       ELSE push_layers_range(node, iter_elem, word, word_char_count, layer_stack,
                              iter_stack, trie)

\* The range element a visit of a range node is at.
RangeElemOf(iter_elem, trie) ==
    LET n == trie.nodes[iter_elem.node + 1].node_union
    IN get_range(trie, n.start_index, n.end_index)[iter_elem.range_offset + 1]

get_node_frequency(iter_elem, trie) ==
    IF node_value(trie.nodes[iter_elem.node + 1]) = "Range"
    THEN RangeElemOf(iter_elem, trie).word_freq
    ELSE trie.nodes[iter_elem.node + 1].node_union.word_freq

get_current_distance(cur_layer) == Last(cur_layer)

\* check_add_word_to_result with the test against the threshold off by one.
check_add_word_to_result_one_beyond(iter_elem, cur_layer, dist_max, layer_word, trie, result_buffer) ==
    Let(get_node_frequency(iter_elem, trie), LAMBDA freq :
        IF get_current_distance(cur_layer) <= dist_max + 1 /\ freq # 0
        THEN Append(result_buffer, [word |-> layer_word, freq |-> freq,
                                    dist |-> get_current_distance(cur_layer)])
        ELSE result_buffer)

check_add_word_to_result(iter_elem, cur_layer, dist_max, layer_word, trie, result_buffer) ==
    Let(get_node_frequency(iter_elem, trie), LAMBDA freq :
        IF get_current_distance(cur_layer) <= dist_max /\ freq # 0
        THEN Append(result_buffer, [word |-> layer_word, freq |-> freq,
                                    dist |-> get_current_distance(cur_layer)])
        ELSE result_buffer)

\* The turns i.. of the loop of cmp_min_with_max_dist; i is 0-based.
RECURSIVE cmp_min_loop(_, _, _, _)
cmp_min_loop(cur_layer, dist_max, i, equals) ==
    IF i >= Len(cur_layer)
    THEN [ord |-> IF equals # <<>> THEN "Equal" ELSE "Greater", equals |-> equals]
    ELSE IF cur_layer[i + 1] < dist_max THEN [ord |-> "Less", equals |-> <<>>]
    ELSE IF cur_layer[i + 1] = dist_max
         THEN cmp_min_loop(cur_layer, dist_max, i + 1, Append(equals, i))
    ELSE cmp_min_loop(cur_layer, dist_max, i + 1, equals)

\* The loop of cmp_min_with_max_dist leaving at the first equal distance.
RECURSIVE cmp_min_loop_until_equal(_, _, _)
cmp_min_loop_until_equal(cur_layer, dist_max, i) ==
    IF i >= Len(cur_layer) THEN [ord |-> "Greater", equals |-> <<>>]
    ELSE IF cur_layer[i + 1] < dist_max THEN [ord |-> "Less", equals |-> <<>>]
    ELSE IF cur_layer[i + 1] = dist_max THEN [ord |-> "Equal", equals |-> <<i>>]
    ELSE cmp_min_loop_until_equal(cur_layer, dist_max, i + 1)

cmp_min_with_max_dist_until_equal(cur_layer, dist_max) ==
    cmp_min_loop_until_equal(cur_layer, dist_max, 0)

\* [ord, equals]; equals holds the 0-based indices of the distances equal
\* to dist_max, in increasing order.
cmp_min_with_max_dist(cur_layer, dist_max) ==
    cmp_min_loop(cur_layer, dist_max, 0, <<>>)

\* The slice of the children of the node, empty if it has none.
get_node_children(trie, iter_elem) ==
    Let(IF node_value(trie.nodes[iter_elem.node + 1]) = "Range"
        THEN RangeElemOf(iter_elem, trie).index_first_child
        ELSE trie.nodes[iter_elem.node + 1].node_union.index_first_child,
        LAMBDA index : IF index = 0 THEN EmptySlice ELSE get_siblings(trie, index))

get_current_last_char(trie, iter_elem) ==
    LET node == trie.nodes[iter_elem.node + 1]
        v == node_value(node)
    IN IF v = "Naive" THEN node.node_union.character
       ELSE IF v = "Patricia"
       THEN Last(get_chars(trie, patricia_range(node).start, patricia_range(node).end))
       ELSE node.node_union.first_char + iter_elem.range_offset

\* The Equal branch: the result buffer after the exact searches from the
\* equal positions k.. of `equals`.
RECURSIVE equal_branch(_, _, _, _, _, _, _, _)
equal_branch(trie, word, dist_max, equals, k, children, layer_word, result_buffer) ==
    IF k > Len(equals) THEN result_buffer
    ELSE IF equals[k] >= Len(word)
    THEN equal_branch(trie, word, dist_max, equals, k + 1, children, layer_word,
                      result_buffer)
    ELSE Let(search_exact_children(trie, SubSeq(word, equals[k] + 1, Len(word)), children),
             LAMBDA freq :
                 equal_branch(trie, word, dist_max, equals, k + 1, children, layer_word,
                     IF freq # 0
                     THEN Append(result_buffer,
                              [word |-> layer_word \o SubSeq(word, equals[k] + 1, Len(word)),
                               freq |-> freq, dist |-> dist_max])
                     ELSE result_buffer))

\* The state of a search: [iter_stack, layer_stack, result_buffer].
\* The prelude of search_approx, for a non-empty word on a trie with roots.
search_approx_begin(trie, word, layer_stack, iter_stack, result_buffer) ==
    LET roots == get_root_siblings(trie).slice
        word_char_count == Len(word)
    IN [iter_stack |-> push_layer_nodes(iter_stack, roots, -1),
        layer_stack |-> push_first_layer(layer_stack, -1, word_char_count),
        result_buffer |-> result_buffer]

\* The turn once the layers of the node are pushed (p), the word is checked
\* (found) and the children are known.
search_approx_children(trie, word, dist_max, iter_elem, p, found, children) ==
    IF SliceIsEmpty(children)
    THEN [iter_stack |-> p.iter_stack,
          layer_stack |-> pop_layer(p.layer_stack),
          result_buffer |-> found]
    ELSE Let(cmp_min_with_max_dist(fetch_layer(p.layer_stack), dist_max), LAMBDA c :
         IF c.ord = "Less"
         THEN [iter_stack |-> push_layer_nodes(p.iter_stack, children,
                                               get_current_last_char(trie, iter_elem)),
               layer_stack |-> p.layer_stack,
               result_buffer |-> found]
         ELSE IF c.ord = "Equal"
         THEN [iter_stack |-> p.iter_stack,
               layer_stack |-> p.layer_stack,
               result_buffer |-> equal_branch(trie, word, dist_max, c.equals, 1, children,
                                              get_layers_word(p.layer_stack), found)]
         ELSE [iter_stack |-> p.iter_stack,
               layer_stack |-> pop_layer(p.layer_stack),
               result_buffer |-> found])

\* One turn of the loop of search_approx; s.iter_stack is not empty.
search_approx_turn(trie, word, dist_max, s) ==
    IF Last(s.iter_stack) = NoneElem
    THEN [s EXCEPT !.iter_stack = Front(s.iter_stack),
                   !.layer_stack = pop_layer(s.layer_stack)]
    ELSE Let(push_layers_current_node(Last(s.iter_stack), word, Len(word), trie,
                                      s.layer_stack, Front(s.iter_stack)),
             LAMBDA p :
                 search_approx_children(trie, word, dist_max, Last(s.iter_stack), p,
                     check_add_word_to_result(Last(s.iter_stack), fetch_layer(p.layer_stack),
                                              dist_max, get_layers_word(p.layer_stack),
                                              trie, s.result_buffer),
                     get_node_children(trie, Last(s.iter_stack))))

RECURSIVE search_approx_loop(_, _, _, _)
search_approx_loop(trie, word, dist_max, s) ==
    IF s.iter_stack = <<>> THEN s
    ELSE search_approx_loop(trie, word, dist_max, search_approx_turn(trie, word, dist_max, s))

\* search_approx without its early return on the empty word.
search_approx_no_early_return(trie, word, dist_max, layer_stack, iter_stack, result_buffer) ==
    IF ~get_root_siblings(trie).some THEN Panicked
    ELSE search_approx_loop(trie, word, dist_max,
             search_approx_begin(trie, word, layer_stack, iter_stack, result_buffer))

\* search_approx as a whole: Panicked, or the state at the return.
search_approx(trie, word, dist_max, layer_stack, iter_stack, result_buffer) ==
    IF word = <<>>
    THEN [iter_stack |-> iter_stack, layer_stack |-> layer_stack,
          result_buffer |-> result_buffer]
    ELSE IF ~get_root_siblings(trie).some THEN Panicked
    ELSE search_approx_loop(trie, word, dist_max,
             search_approx_begin(trie, word, layer_stack, iter_stack, result_buffer))

(***************************************************************************)
(* The order of the found words and the sort of the driver.                *)
(***************************************************************************)
RECURSIVE SeqLess(_, _)
SeqLess(a, b) ==
    IF b = <<>> THEN FALSE
    ELSE IF a = <<>> THEN TRUE
    ELSE IF a[1] # b[1] THEN a[1] < b[1]
    ELSE SeqLess(Tail(a), Tail(b))

\* FoundWord::cmp with the frequencies compared the other way round.
FoundWord_less_rare_first(a, b) ==
    IF a.dist # b.dist THEN a.dist < b.dist
    ELSE IF a.freq # b.freq THEN a.freq < b.freq
    ELSE SeqLess(StrBytes(a.word), StrBytes(b.word))

\* FoundWord::cmp(a, b) = Less; words compare as their bytes.
FoundWord_less(a, b) ==
    IF a.dist # b.dist THEN a.dist < b.dist
    ELSE IF a.freq # b.freq THEN b.freq < a.freq
    ELSE SeqLess(StrBytes(a.word), StrBytes(b.word))

RECURSIVE sort_unstable(_)
sort_unstable(buf) ==
    IF buf = <<>> THEN <<>>
    ELSE LET i == CHOOSE i \in 1..Len(buf) :
                      \A j \in 1..Len(buf) : ~FoundWord_less(buf[j], buf[i])
         IN <<buf[i]>> \o sort_unstable(SubSeq(buf, 1, i - 1) \o SubSeq(buf, i + 1, Len(buf)))

\* The found words that process_search_exact writes.
process_search_exact(trie, word) ==
    LET freq == search_exact(trie, word)
    IN IF freq # 0 THEN <<[word |-> word, freq |-> freq, dist |-> 0]>> ELSE <<>>


(***************************************************************************)
(* The program as a state machine: the index binary inserts the words and  *)
(* compiles the trie, the search binary answers queries.                   *)
(*   pc        "build", "ready", "search", "done" or "panic"               *)
(*   root      the intermediate patricia trie                              *)
(*   inserted  the words inserted so far; the k-th has frequency k         *)
(*   trie      the compiled trie                                           *)
(*   entry     the function the query entered by                           *)
(*   word, dist_max   the query                                            *)
(*   iter_stack, layer_stack, result_buffer   the buffers of the search    *)
(*   output    the found words of the last answered query                  *)
(*   file      the dictionary file as written: its header and the offset   *)
(*             of each of its regions                                      *)
(*   mapped    the regions of the file as the reader types them            *)
(*   big_string, added   the characters array under construction and the   *)
(*             calls of add_chars made on it                               *)
(*   nodes_chars, heuristics   a layer of children (their labels) and its  *)
(*             plan                                                        *)
(*   args, ret the arguments and the result of a function called on its    *)
(*             own (a constructor of a node, a comparison of a row)       *)
(*   shadow    the layers pushed on a layer stack used on its own and not  *)
(*             popped yet, each with the elements last written to it       *)
(***************************************************************************)
VARIABLES pc, root, inserted, trie, entry, word, dist_max,
          iter_stack, layer_stack, result_buffer, output,
          file, mapped, big_string, added, nodes_chars, heuristics,
          args, ret, shadow

vars == <<pc, root, inserted, trie, entry, word, dist_max,
          iter_stack, layer_stack, result_buffer, output,
          file, mapped, big_string, added, nodes_chars, heuristics,
          args, ret, shadow>>

\* The variables of the dictionary file, of the characters array and of the
\* plan of a layer.
fileVars == <<file, mapped>>
charsVars == <<big_string, added>>
planVars == <<nodes_chars, heuristics>>
callVars == <<args, ret>>
\* The variables of the search.
searchVars == <<entry, word, dist_max, iter_stack, layer_stack, result_buffer, output>>

\* No file is written, no characters array and no layer is under construction.
NoFile == file = <<>> /\ mapped = <<>>
NoChars == big_string = <<>> /\ added = <<>>
NoPlan == nodes_chars = <<>> /\ heuristics = <<>>
NoCall == args = <<>> /\ ret = <<>> /\ shadow = <<>>

EmptyTrie == [nodes |-> <<>>, chars |-> <<>>, ranges |-> <<>>]

Init ==
    /\ pc = "build"
    /\ root = create_empty
    /\ inserted = <<>>
    /\ trie = EmptyTrie
    /\ entry = "none"
    /\ word = <<>>
    /\ dist_max = 0
    /\ iter_stack = <<>>
    /\ layer_stack = EmptyLayerStack
    /\ result_buffer = <<>>
    /\ output = <<>>
    /\ NoFile /\ NoChars /\ NoPlan /\ NoCall

\* The index binary inserts a word; its frequency is its rank of insertion.
\* A panic of the insertion ends the program.
Insert ==
    /\ pc = "build"
    /\ Len(inserted) < MaxWords
    /\ \E w \in DictWords :
          \E r \in {insert(root, w, Len(inserted) + 1)} :
             /\ inserted' = Append(inserted, w)
             /\ IF IsPanic(r)
                THEN pc' = "panic" /\ root' = root
                ELSE pc' = "build" /\ root' = r
    /\ UNCHANGED <<trie, entry, word, dist_max, iter_stack, layer_stack,
                   result_buffer, output>>
    /\ UNCHANGED <<fileVars, charsVars, planVars, callVars, shadow>>

\* The index binary compiles the trie; the search binary starts on it.
Compile ==
    /\ pc = "build"
    /\ trie' = CompiledTrie_from(root)
    /\ pc' = "ready"
    /\ UNCHANGED <<root, inserted, entry, word, dist_max, iter_stack, layer_stack,
                   result_buffer, output>>
    /\ UNCHANGED <<fileVars, charsVars, planVars, callVars, shadow>>

\* The entry into search_approx with the given buffers.
EnterSearchApprox(w, d, ls, is, rb) ==
    /\ word' = w
    /\ dist_max' = d
    /\ output' = <<>>
    /\ IF w = <<>>
       THEN /\ pc' = "search"
            /\ iter_stack' = is /\ layer_stack' = ls /\ result_buffer' = rb
       ELSE IF ~get_root_siblings(trie).some
       THEN /\ pc' = "panic"
            /\ iter_stack' = is /\ layer_stack' = ls /\ result_buffer' = rb
       ELSE \E s \in {search_approx_begin(trie, w, ls, is, rb)} :
               /\ pc' = "search"
               /\ iter_stack' = s.iter_stack
               /\ layer_stack' = s.layer_stack
               /\ result_buffer' = s.result_buffer

\* search_approx called with new buffers, at any distance.
CallSearchApprox ==
    /\ pc = "ready"
    /\ \E w \in QueryWords, d \in 0..MaxDist :
          EnterSearchApprox(w, d, EmptyLayerStack, <<>>, <<>>)
    /\ entry' = "search_approx"
    /\ UNCHANGED <<root, inserted, trie>>
    /\ UNCHANGED <<fileVars, charsVars, planVars, callVars, shadow>>

\* A query line of distance 0: process_search_exact.
ProcessSearchExact ==
    /\ pc = "ready"
    /\ \E w \in QueryWords \cup DictWords :
          /\ word' = w
          /\ output' = process_search_exact(trie, w)
    /\ dist_max' = 0
    /\ entry' = "process_search_exact"
    /\ pc' = "done"
    /\ UNCHANGED <<root, inserted, trie, iter_stack, layer_stack, result_buffer>>
    /\ UNCHANGED <<fileVars, charsVars, planVars, callVars, shadow>>

\* A query line of a positive distance: process_search_approx clears the
\* buffers of the driver and enters search_approx.
ProcessSearchApprox ==
    /\ pc = "ready"
    /\ \E w \in QueryWords, d \in 1..MaxDist :
          EnterSearchApprox(w, d, clear(layer_stack), <<>>, <<>>)
    /\ entry' = "process_search_approx"
    /\ UNCHANGED <<root, inserted, trie>>
    /\ UNCHANGED <<fileVars, charsVars, planVars, callVars, shadow>>

\* One turn of the loop of search_approx.
SearchTurn ==
    /\ pc = "search"
    /\ iter_stack # <<>>
    /\ \E s \in {search_approx_turn(trie, word, dist_max,
                    [iter_stack |-> iter_stack, layer_stack |-> layer_stack,
                     result_buffer |-> result_buffer])} :
          /\ iter_stack' = s.iter_stack
          /\ layer_stack' = s.layer_stack
          /\ result_buffer' = s.result_buffer
    /\ UNCHANGED <<pc, root, inserted, trie, entry, word, dist_max, output>>
    /\ UNCHANGED <<fileVars, charsVars, planVars, callVars, shadow>>

\* search_approx returns; process_search_approx sorts the found words.
SearchReturn ==
    /\ pc = "search"
    /\ iter_stack = <<>>
    /\ pc' = "done"
    /\ IF entry = "process_search_approx"
       THEN /\ result_buffer' = sort_unstable(result_buffer)
            /\ output' = sort_unstable(result_buffer)
       ELSE /\ result_buffer' = result_buffer
            /\ output' = result_buffer
    /\ UNCHANGED <<root, inserted, trie, entry, word, dist_max, iter_stack, layer_stack>>
    /\ UNCHANGED <<fileVars, charsVars, planVars, callVars, shadow>>

Next ==
    \/ Insert
    \/ Compile
    \/ CallSearchApprox
    \/ ProcessSearchExact
    \/ ProcessSearchApprox
    \/ SearchTurn
    \/ SearchReturn

Spec == Init /\ [][Next]_vars


(***************************************************************************)
(* Reference notions the results are compared with.                        *)
(***************************************************************************)
\* The dictionary: the words inserted, each with the frequency of its last
\* insertion (0: not in the dictionary).
InsertedWords == {inserted[i] : i \in 1..Len(inserted)}
LastFreq(w) ==
    LET I == {i \in 1..Len(inserted) : inserted[i] = w}
    IN IF I = {} THEN 0 ELSE CHOOSE i \in I : \A j \in I : j <= i

\* The edit distance with insertions, deletions, substitutions and
\* transpositions of two adjacent characters, by its recurrence.
EditDistance(a, b) ==
    LET d[i \in 0..Len(a), j \in 0..Len(b)] ==
            IF i = 0 THEN j
            ELSE IF j = 0 THEN i
            ELSE Let(Min2(Min2(d[i - 1, j] + 1, d[i, j - 1] + 1),
                          d[i - 1, j - 1] + (IF a[i] = b[j] THEN 0 ELSE 1)),
                     LAMBDA m :
                         IF i > 1 /\ j > 1 /\ a[i] = b[j - 1] /\ a[i - 1] = b[j]
                         THEN Min2(m, d[i - 2, j - 2] + 1)
                         ELSE m)
    IN d[Len(a), Len(b)]

\* The found words a query must give: every word of the dictionary within
\* the distance, with its frequency and its distance.
WordsWithin(q, n) ==
    {[word |-> w, freq |-> LastFreq(w), dist |-> EditDistance(q, w)] :
        w \in {v \in InsertedWords : EditDistance(q, v) <= n}}

SeqToSet(sq) == {sq[i] : i \in 1..Len(sq)}
\* The list holds exactly the elements of the set, each once.
ListsExactly(sq, S) == SeqToSet(sq) = S /\ Len(sq) = Cardinality(S)

\* An approximate search has returned.
ApproxDone == pc = "done" /\ entry \in {"search_approx", "process_search_approx"}

\* C1: an approximate search of a non-empty query at distance N returns
\* exactly the words of the dictionary whose edit distance to the query is at
\* most N, each with its frequency and its distance.
C1_ApproxReturnsWordsWithin ==
    (ApproxDone /\ word # <<>>) => ListsExactly(output, WordsWithin(word, dist_max))


\* The found words of a search for exactly the word w.
ExactAnswer(w) ==
    IF LastFreq(w) # 0 THEN <<[word |-> w, freq |-> LastFreq(w), dist |-> 0]>> ELSE <<>>

\* The exact search of a query line of distance 0 has answered.
ExactDone == pc = "done" /\ entry = "process_search_exact"

\* The exact search of every non-empty word answers the frequency of its
\* last insertion, and absence if it was never inserted.
ExactAnswersDictionary == (ExactDone /\ word # <<>>) => output = ExactAnswer(word)

\* An insertion into the intermediate trie has panicked.
InsertPanicked == pc = "panic" /\ entry = "none"

\* C2: every sequence of insertions is carried out and compiled, and the
\* exact search then returns, for every inserted word, the frequency of its
\* last insertion, and absence for every non-empty word never inserted.
C2_ExactReturnsInserted == ~InsertPanicked /\ ExactAnswersDictionary

\* C3: a search at distance 0, by search_approx with dist_max = 0 as well as
\* by the query line of distance 0, returns exactly the inserted word equal
\* to the query, with its frequency and the distance 0.
C3_DistanceZeroIsExact ==
    (pc = "done" /\ dist_max = 0) => output = ExactAnswer(word)

\* C4: the approximate search of an inserted word, at any distance, returns
\* the word with the frequency of its last insertion and the distance 0.
C4_InsertedWordAtDistanceZero ==
    (ApproxDone /\ LastFreq(word) # 0)
        => [word |-> word, freq |-> LastFreq(word), dist |-> 0] \in SeqToSet(output)

\* The found words of search_approx called with new buffers, as a set.
ApproxResult(q, n) ==
    SeqToSet(search_approx(trie, q, n, EmptyLayerStack, <<>>, <<>>).result_buffer)

\* C5: every found word of a search at distance N is found, at the same
\* distance, by the search of the same query at every distance M >= N, and
\* no found word has a distance above the distance searched with.
C5_MonotoneInDistance ==
    (ApproxDone /\ word # <<>>)
        => /\ \A M \in dist_max..MaxDist : SeqToSet(output) \subseteq ApproxResult(word, M)
           /\ \A e \in SeqToSet(output) : e.dist <= dist_max

\* A search has panicked.
SearchPanicked == pc = "panic" /\ entry # "none"

\* C10: on a compiled trie without nodes, no search of a non-empty query
\* panics: the exact search answers absence and the approximate search an
\* empty list.
C10_EmptyTrieAnswersAbsence ==
    (trie.nodes = <<>> /\ word # <<>>)
        => /\ ~SearchPanicked
           /\ pc = "done" => output = <<>>


(***************************************************************************)
(* The distance rows alone: the rows that the visits of a path of naive    *)
(* nodes push on the layer stack, for a query and a path drawn from small  *)
(* sets, and for the query "abaca" along the path "alabama".  The path is  *)
(* the word of the layer stack.                                            *)
(***************************************************************************)
\* Length of a path.
MaxPathLen == 4
\* Length of a query of the rows.
MaxLayerQueryLen == 3
LayerChars == {97, 98, 99}
ExampleQuery == <<97, 98, 97, 99, 97>>
ExamplePath == <<97, 108, 97, 98, 97, 109, 97>>
LayerQueries == (SeqsUpTo({97, 98}, MaxLayerQueryLen) \ {<<>>}) \cup {ExampleQuery}

\* The characters a path goes on with.
NextPathChars(q, path) ==
    IF q = ExampleQuery
    THEN IF Len(path) < Len(ExamplePath) THEN {ExamplePath[Len(path) + 1]} ELSE {}
    ELSE IF Len(path) < MaxPathLen THEN LayerChars ELSE {}

LayerInit ==
    /\ pc = "layer"
    /\ root = create_empty
    /\ inserted = <<>>
    /\ trie = EmptyTrie
    /\ entry = "none"
    /\ word \in LayerQueries
    /\ dist_max = 0
    /\ iter_stack = <<>>
    /\ layer_stack = push_first_layer(EmptyLayerStack, -1, Len(word))
    /\ result_buffer = <<>>
    /\ output = <<>>
    /\ NoFile /\ NoChars /\ NoPlan /\ NoCall

\* The visit of a naive node of character c below the path: its row is
\* pushed; the character before it is the last one of the path.
PushNaiveLayer ==
    /\ pc = "layer"
    /\ \E c \in NextPathChars(word, get_layers_word(layer_stack)) :
          layer_stack' =
              push_layers_naive(
                  new_naive([index_first_child |-> 0, word_freq |-> 0, character |-> c], 0),
                  [node |-> 0,
                   last_char |-> IF get_layers_word(layer_stack) = <<>> THEN -1
                                 ELSE Last(get_layers_word(layer_stack)),
                   range_offset |-> 0],
                  word, Len(word), layer_stack)
    /\ UNCHANGED <<pc, root, inserted, trie, entry, word, dist_max, iter_stack,
                   result_buffer, output>>
    /\ UNCHANGED <<fileVars, charsVars, planVars, callVars, shadow>>

\* The end of the children of the last node of the path: its row is popped.
PopNaiveLayer ==
    /\ pc = "layer"
    /\ get_layers_word(layer_stack) # <<>>
    /\ layer_stack' = pop_layer(layer_stack)
    /\ UNCHANGED <<pc, root, inserted, trie, entry, word, dist_max, iter_stack,
                   result_buffer, output>>
    /\ UNCHANGED <<fileVars, charsVars, planVars, callVars, shadow>>

LayerNext == PushNaiveLayer \/ PopNaiveLayer

SpecLayer == LayerInit /\ [][LayerNext]_vars

\* The k-th row of the layer stack, the seed row being the row 0.
LayerRow(k) ==
    Slice(layer_stack.elements, k * (Len(word) + 1), (k + 1) * (Len(word) + 1))

\* The rows of the query "abaca" along the path "alabama".
ExampleRows ==
    << <<1, 0, 1, 2, 3, 4>>, <<2, 1, 1, 2, 3, 4>>, <<3, 2, 2, 1, 2, 3>>,
       <<4, 3, 2, 2, 2, 3>>, <<5, 4, 3, 2, 3, 2>>, <<6, 5, 4, 3, 3, 3>>,
       <<7, 6, 5, 4, 4, 3>> >>

HEADER_LEN == 24
NODE_LEN == 16
CHAR_LEN == 4
RANGE_ELEMENT_LEN == 8

Cell(kind, at) == [kind |-> kind, at |-> at]

\* The characters array as an array of char.
file_chars(t) == Utf8Chars(t.chars)

\* impl From<CompiledTrie> for DictionaryFile: the header.
DictionaryFile_from(t) ==
    [nb_nodes |-> Len(t.nodes), nb_chars |-> Len(file_chars(t)),
     nb_ranges |-> Len(t.ranges)]

\* utils::as_bytes of the header: three fields of the same size.
header_as_bytes(header) ==
    [k \in 1..HEADER_LEN |->
        IF k = 1 THEN Cell("usize", header.nb_nodes)
        ELSE IF k = 1 + (HEADER_LEN \div 3) THEN Cell("usize", header.nb_chars)
        ELSE IF k = 1 + 2 * (HEADER_LEN \div 3) THEN Cell("usize", header.nb_ranges)
        ELSE Cell("pad", 0)]

\* AsBytes for [T]: len * size_of::<T>() bytes.
slice_as_bytes(kind, len, size) ==
    [k \in 1..(len * size) |->
        IF (k - 1) % size = 0 THEN Cell(kind, ((k - 1) \div size) + 1)
        ELSE Cell("pad", 0)]

\* write_all of one blob: the blob is placed at the end of the file.
write_all(f, bytes) ==
    [f EXCEPT !.bytes = @ \o bytes, !.at = Append(@, Len(f.bytes))]

\* write_file: the header, the nodes, the characters, the ranges, in order.
\* [bytes, at]: the file and the offsets the four blobs were placed at.
write_file(header, t) ==
    write_all(
        write_all(
            write_all(
                write_all([bytes |-> <<>>, at |-> <<>>], header_as_bytes(header)),
                slice_as_bytes("node", Len(t.nodes), NODE_LEN)),
            slice_as_bytes("char", Len(file_chars(t)), CHAR_LEN)),
        slice_as_bytes("range", Len(t.ranges), RANGE_ELEMENT_LEN))

\* get_offsets_ptr with the characters taken as one byte each.
get_offsets_ptr_one_byte_chars(header, ptr) ==
    [nodes_ptr |-> ptr + HEADER_LEN,
     chars_ptr |-> ptr + HEADER_LEN + header.nb_nodes * NODE_LEN,
     ranges_ptr |-> ptr + HEADER_LEN + header.nb_nodes * NODE_LEN + header.nb_chars]

get_offsets_ptr(header, ptr) ==
    [nodes_ptr |-> ptr + HEADER_LEN,
     chars_ptr |-> ptr + HEADER_LEN + header.nb_nodes * NODE_LEN,
     ranges_ptr |-> ptr + HEADER_LEN + header.nb_nodes * NODE_LEN
                        + header.nb_chars * CHAR_LEN]

\* The byte of the mapped file at an offset.
byte_at(bytes, offset) ==
    IF offset < Len(bytes) THEN bytes[offset + 1] ELSE Cell("unmapped", 0)

\* slice::from_raw_parts: len elements of the given size from ptr on.
from_raw_parts(bytes, ptr, size, len) ==
    [i \in 1..len |-> byte_at(bytes, ptr + (i - 1) * size)]

\* The header typed at the start of the mapped file.
read_header(bytes) ==
    [nb_nodes |-> byte_at(bytes, 0).at,
     nb_chars |-> byte_at(bytes, HEADER_LEN \div 3).at,
     nb_ranges |-> byte_at(bytes, 2 * (HEADER_LEN \div 3)).at]

typed_file(bytes, header, offsets) ==
    [header |-> header,
     offsets |-> offsets,
     nodes |-> from_raw_parts(bytes, offsets.nodes_ptr, NODE_LEN, header.nb_nodes),
     chars |-> from_raw_parts(bytes, offsets.chars_ptr, CHAR_LEN, header.nb_chars),
     ranges |-> from_raw_parts(bytes, offsets.ranges_ptr, RANGE_ELEMENT_LEN,
                               header.nb_ranges)]

\* read_file: the header, the offsets and the three arrays typed at them.
read_file(bytes) ==
    typed_file(bytes, read_header(bytes), get_offsets_ptr(read_header(bytes), 0))

\* The index binary writes the dictionary of the compiled trie.
WriteFile ==
    /\ pc = "ready"
    /\ file' = write_file(DictionaryFile_from(trie), trie)
    /\ pc' = "written"
    /\ UNCHANGED <<root, inserted, trie, searchVars, mapped, charsVars, planVars, callVars, shadow>>

\* The search binary reads the dictionary.
ReadFile ==
    /\ pc = "written"
    /\ mapped' = read_file(file.bytes)
    /\ pc' = "read"
    /\ UNCHANGED <<root, inserted, trie, searchVars, file, charsVars, planVars, callVars, shadow>>

FileNext == Insert \/ Compile \/ WriteFile \/ ReadFile

SpecFile == Init /\ [][FileNext]_vars

\* The elements 1..n of the array of the given kind, as read.
SameArray(cells, kind, n) == cells = [i \in 1..n |-> Cell(kind, i)]

MaxAdds == 3

\* The substrings added: three labels, and long ones that move the first
\* labels to the edge of the search window.
CharsLabels ==
    {<<97, 97>>, <<99, 97>>, <<233, 97>>}
    \cup {Repeat(120, SEARCH_LIMIT - k) : k \in 1..3}

CharsInit ==
    /\ pc = "chars"
    /\ root = create_empty
    /\ inserted = <<>>
    /\ trie = EmptyTrie
    /\ entry = "none"
    /\ word = <<>>
    /\ dist_max = 0
    /\ iter_stack = <<>>
    /\ layer_stack = EmptyLayerStack
    /\ result_buffer = <<>>
    /\ output = <<>>
    /\ NoFile /\ NoChars /\ NoPlan /\ NoCall

\* One call of add_chars on the characters array; the call is recorded with
\* the length of the array before and after it.
AddChars ==
    /\ pc = "chars"
    /\ Len(added) < MaxAdds
    /\ \E chars \in CharsLabels :
          \E r \in {add_chars(big_string, chars)} :
             /\ big_string' = r.big_string
             /\ added' = Append(added,
                    [chars |-> chars, start |-> r.start, end |-> r.end,
                     len_before |-> Len(big_string), len_after |-> Len(r.big_string)])
    /\ UNCHANGED <<pc, root, inserted, trie, searchVars, fileVars, planVars, callVars, shadow>>

SpecChars == CharsInit /\ [][AddChars]_vars

\* The call j added a substring that the earlier call i added, and the range
\* the call i returned lies in the last SEARCH_LIMIT bytes of the array.
EarlierInWindow(i, j) ==
    /\ i < j
    /\ added[i].chars = added[j].chars
    /\ added[i].start >= added[j].len_before - SEARCH_LIMIT

\* The bytes of the substring of the call j are at the offset p of the array.
OccursAt(j, p) ==
    Slice(big_string, p, p + (added[j].end - added[j].start))
        = Slice(big_string, added[j].start, added[j].end)

\* C9 as stated: a substring added again while the earlier one is within the
\* last 2048 bytes appends nothing and gets the start offset of the earlier
\* one; the range returned always spells the substring.
C9_SameOffsetAsEarlier ==
    \A j \in 1..Len(added) :
        /\ Slice(big_string, added[j].start, added[j].end) = StrBytes(added[j].chars)
        /\ \A i \in 1..Len(added) :
              EarlierInWindow(i, j) =>
                  /\ added[j].len_after = added[j].len_before
                  /\ added[j].start = added[i].start

\* C9, amended: a substring added again while the earlier one is within the
\* last 2048 bytes appends nothing and gets the offset of the first
\* occurrence of its bytes in these last 2048 bytes, which is the offset of
\* the earlier one or a smaller one; the range returned always spells the
\* substring.
C9_FirstOccurrenceInWindow ==
    \A j \in 1..Len(added) :
        /\ Slice(big_string, added[j].start, added[j].end) = StrBytes(added[j].chars)
        /\ \A i \in 1..Len(added) :
              EarlierInWindow(i, j) =>
                  /\ added[j].len_after = added[j].len_before
                  /\ added[j].start <= added[i].start
                  /\ added[j].start >= added[j].len_before - SEARCH_LIMIT
                  /\ \A p \in 0..(added[j].start - 1) :
                        p >= added[j].len_before - SEARCH_LIMIT => ~OccursAt(j, p)

\* "aa" is added, then 2046 bytes, then "aa" again: the first "aa" is at the
\* edge of the last 2048 bytes and is found.
C9_Witness ==
    /\ Len(added) = 3
    /\ added[1].chars = <<97, 97>>
    /\ added[2].chars = Repeat(120, SEARCH_LIMIT - 2)
    /\ added[3].chars = <<97, 97>>
    /\ added[3].len_before = SEARCH_LIMIT
    /\ added[3].len_after = SEARCH_LIMIT
    /\ added[3].start = 0

(***************************************************************************)
(* The plan of a layer of children: node_type_heuristic on the labels of   *)
(* the children, sorted by their first characters.                         *)
(***************************************************************************)
\* Number of children of a layer.
MaxChildren == 4

\* The first characters of the children: 'a', 'b', 'e', 'i', 'j' are 1, 3, 4
\* and 1 apart.
PlanChars == {97, 98, 101, 105, 106}

\* The labels of a child of first character c: the character, or two
\* characters.
PlanLabels(c) == {<<c>>, <<c, 120>>}

\* The layers: children of distinct first characters, in their order.
PlanLayers ==
    {l \in SeqsUpTo(UNION {PlanLabels(c) : c \in PlanChars}, MaxChildren) \ {<<>>} :
        \A i \in 1..(Len(l) - 1) : l[i][1] < l[i + 1][1]}

PlanInit ==
    /\ pc = "plan"
    /\ root = create_empty
    /\ inserted = <<>>
    /\ trie = EmptyTrie
    /\ entry = "none"
    /\ word = <<>>
    /\ dist_max = 0
    /\ iter_stack = <<>>
    /\ layer_stack = EmptyLayerStack
    /\ result_buffer = <<>>
    /\ output = <<>>
    /\ NoFile /\ NoChars /\ NoCall
    /\ nodes_chars \in PlanLayers
    /\ heuristics = <<>>

\* The layer is planned.
PlanLayer ==
    /\ pc = "plan"
    /\ heuristics' = node_type_heuristic(nodes_chars)
    /\ pc' = "planned"
    /\ UNCHANGED <<root, inserted, trie, searchVars, fileVars, charsVars, nodes_chars, callVars, shadow>>

SpecHeuristic == PlanInit /\ [][PlanLayer]_vars

\* The child i (0-based) has a label of one character.
IsOneChar(i) == Len(nodes_chars[i + 1]) = 1
\* The children i - 1 and i have labels of one character and the character
\* of i is within 3 after the one of i - 1.
NearPredecessor(i) ==
    /\ i >= 1 /\ i < Len(nodes_chars)
    /\ IsOneChar(i - 1) /\ IsOneChar(i)
    /\ nodes_chars[i + 1][1] - nodes_chars[i][1] >= 1
    /\ nodes_chars[i + 1][1] - nodes_chars[i][1] <= 3
\* The child i is in a run of two or more such children.
InRun(i) == NearPredecessor(i) \/ NearPredecessor(i + 1)

\* The children [from, to) a plan entry covers.
PlanFrom(e) == IF e.kind = "Range" THEN e.from ELSE e.node
PlanTo(e) == IF e.kind = "Range" THEN e.to ELSE e.node + 1

\* The plan covers the children in their order, each once.
PlanCoversInOrder ==
    /\ heuristics # <<>>
    /\ PlanFrom(heuristics[1]) = 0
    /\ PlanTo(heuristics[Len(heuristics)]) = Len(nodes_chars)
    /\ \A k \in 1..(Len(heuristics) - 1) :
          PlanFrom(heuristics[k + 1]) = PlanTo(heuristics[k])
    /\ \A k \in 1..Len(heuristics) : PlanFrom(heuristics[k]) < PlanTo(heuristics[k])

\* A substring entry is a child of several characters, with its label.
PatriciaEntryRight(e) ==
    /\ ~IsOneChar(e.node)
    /\ e.chars = nodes_chars[e.node + 1]
\* A range entry is a maximal run of two or more children, with their
\* characters.
RangeEntryRight(e) ==
    /\ e.to - e.from >= 2
    /\ \A i \in (e.from + 1)..(e.to - 1) : NearPredecessor(i)
    /\ ~NearPredecessor(e.from)
    /\ ~NearPredecessor(e.to)
    /\ IsOneChar(e.from)
    /\ e.chars = [i \in 1..(e.to - e.from) |-> nodes_chars[e.from + i][1]]
\* A naive entry is a child of one character that is in no run.
SimpleEntryRight(e) ==
    /\ IsOneChar(e.node)
    /\ ~InRun(e.node)
    /\ e.char = nodes_chars[e.node + 1][1]

\* C8: in the plan of a layer sorted by first character, a child of several
\* characters is a substring node, a maximal run of two or more adjacent
\* children of one character, each within 3 after its predecessor, is one
\* range of exactly the run, a child of one character in no run is a naive
\* node; the plan keeps the order of the children and covers each once.
C8_PlanOfLayer ==
    pc = "planned" =>
        /\ PlanCoversInOrder
        /\ \A k \in 1..Len(heuristics) :
              IF heuristics[k].kind = "Patricia" THEN PatriciaEntryRight(heuristics[k])
              ELSE IF heuristics[k].kind = "Range" THEN RangeEntryRight(heuristics[k])
              ELSE heuristics[k].kind = "Simple" /\ SimpleEntryRight(heuristics[k])

\* The plan of 'b', 'e' (3 apart), 'i' (4 after 'e') and "jx": a range, a
\* naive node and a substring node.
C8_Witness ==
    /\ pc = "planned"
    /\ nodes_chars = << <<98>>, <<101>>, <<105>>, <<106, 120>> >>
    /\ heuristics =
          << [kind |-> "Range", from |-> 0, to |-> 2, chars |-> <<98, 101>>],
             [kind |-> "Simple", node |-> 2, char |-> 105],
             [kind |-> "Patricia", node |-> 3, chars |-> <<106, 120>>] >>

(***************************************************************************)
(* The constructors of a node, called on their own.                        *)
(***************************************************************************)
\* None of the variables of the index and of the search is in use.
NoProgram ==
    /\ root = create_empty
    /\ inserted = <<>>
    /\ trie = EmptyTrie
    /\ entry = "none"
    /\ word = <<>>
    /\ dist_max = 0
    /\ iter_stack = <<>>
    /\ layer_stack = EmptyLayerStack
    /\ result_buffer = <<>>
    /\ output = <<>>

\* The capacities the constructors assert: 1 << 18 siblings, 1 << 12 bytes.
SIBLINGS_CAPACITY == 262144
STR_LEN_CAPACITY == 4096
\* How far above a capacity the arguments go.
MaxOver == 1

NodeSiblingCounts == {0, 1, 2} \cup {SIBLINGS_CAPACITY + k : k \in (-2)..MaxOver}
NodeStrLens == {0, 1, 2} \cup {STR_LEN_CAPACITY + k : k \in (-2)..MaxOver}

\* The arguments of a constructor; debug_assertions tells whether the build
\* keeps the debug assertions (a debug build) or not (a release build).
NodeArgs ==
    [variant : {"Naive"},
     data : {[index_first_child |-> 0, word_freq |-> 1, character |-> 97]},
     nb_siblings : NodeSiblingCounts, str_len : {0}, debug_assertions : BOOLEAN]
    \cup
    [variant : {"Patricia"},
     data : {[index_first_child |-> 0, word_freq |-> 1, start_index |-> i] : i \in {0, 7}},
     nb_siblings : NodeSiblingCounts, str_len : NodeStrLens, debug_assertions : BOOLEAN]
    \cup
    [variant : {"Range"},
     data : {[first_char |-> 97, start_index |-> 0, end_index |-> 3]},
     nb_siblings : NodeSiblingCounts, str_len : {0}, debug_assertions : BOOLEAN]

\* debug_assert!(cond): a panic only where the build keeps the assertions.
debug_assert(debug_assertions, cond) == debug_assertions => cond

\* new_naive, new_patricia and new_range with their assertions.
CompiledTrieNode_new(a) ==
    IF ~debug_assert(a.debug_assertions, a.nb_siblings < SIBLINGS_CAPACITY)
    THEN Panicked
    ELSE IF a.variant = "Naive" THEN new_naive(a.data, a.nb_siblings)
    ELSE IF a.variant = "Range" THEN new_range(a.data, a.nb_siblings)
    ELSE IF ~debug_assert(a.debug_assertions, a.str_len < STR_LEN_CAPACITY)
    THEN Panicked
    ELSE new_patricia(a.data, a.nb_siblings, a.str_len)

NodeInit ==
    /\ pc = "node"
    /\ NoProgram /\ NoFile /\ NoChars /\ NoPlan
    /\ args \in NodeArgs
    /\ ret = <<>>
    /\ shadow = <<>>

\* The constructor is called.
BuildNode ==
    /\ pc = "node"
    /\ \E r \in {CompiledTrieNode_new(args)} :
          IF IsPanic(r) THEN pc' = "panic" /\ ret' = ret
          ELSE pc' = "built" /\ ret' = r
    /\ UNCHANGED <<root, inserted, trie, searchVars, fileVars, charsVars, planVars,
                   args, shadow>>

SpecNode == NodeInit /\ [][BuildNode]_vars

\* The arguments are within the capacities of the header.
InCapacity(a) ==
    /\ a.nb_siblings < SIBLINGS_CAPACITY
    /\ a.variant = "Patricia" => a.str_len < STR_LEN_CAPACITY

\* C11: no node is built from a sibling count of 2^18 or more or from a
\* substring length of 2^12 or more; the constructor aborts.
C11_OverflowIsRejected == pc = "built" => InCapacity(args)

\* C18: a node built from a sibling count below 2^18 and a length below 2^12
\* reads back its variant, its sibling count and, for a substring node, the
\* range of the given length from start_index; the fields of the header do
\* not disturb one another and the data of the node is kept.
C18_HeaderRoundTrip ==
    (pc = "built" /\ InCapacity(args)) =>
        /\ node_value(ret) = args.variant
        /\ nb_siblings(ret) = args.nb_siblings
        /\ ret.node_union = args.data
        /\ get_masked_flags(ret.nb_siblings_with_flags, MASK_PAT_STR_LENGTH) = args.str_len
        /\ args.variant = "Patricia" =>
              patricia_range(ret) = [start |-> args.data.start_index,
                                     end |-> args.data.start_index + args.str_len]

\* A substring node of 262143 siblings and 4095 bytes is built.
C18_Witness ==
    /\ pc = "built"
    /\ args.variant = "Patricia"
    /\ args.nb_siblings = SIBLINGS_CAPACITY - 1
    /\ args.str_len = STR_LEN_CAPACITY - 1
    /\ args.data.start_index = 7
    /\ nb_siblings(ret) = 262143
    /\ patricia_range(ret) = [start |-> 7, end |-> 4102]

(***************************************************************************)
(* search_approx called with buffers that are in use: a layer stack that   *)
(* holds a layer, an iteration stack that holds a record, a result buffer  *)
(* that holds a found word.                                                *)
(***************************************************************************)
\* Number of words of the trie searched.
MaxGivenWords == 2
GivenDictWords == {<<97>>, <<97, 99>>, <<99>>}
GivenQueries == {<<>>, <<97>>}

\* The intermediate trie after the insertion of the words, in their order.
RECURSIVE insert_all(_, _, _)
insert_all(node, words, k) ==
    IF k > Len(words) THEN node
    ELSE insert_all(insert(node, words[k], k), words, k + 1)

GivenLayerStacks == {EmptyLayerStack, push_first_layer(EmptyLayerStack, -1, 1)}
GivenIterStacks == {<<>>, <<NoneElem>>}
GivenResultBuffers == {<<>>, <<[word |-> <<98>>, freq |-> 4, dist |-> 1]>>}

GivenInit ==
    /\ pc = "given"
    /\ inserted \in SeqsUpTo(GivenDictWords, MaxGivenWords)
    /\ root = insert_all(create_empty, inserted, 1)
    /\ trie = CompiledTrie_from(root)
    /\ entry = "search_approx"
    /\ word \in GivenQueries
    /\ dist_max \in 0..MaxDist
    /\ layer_stack \in GivenLayerStacks
    /\ iter_stack \in GivenIterStacks
    /\ result_buffer \in GivenResultBuffers
    /\ output = <<>>
    /\ NoFile /\ NoChars /\ NoPlan /\ NoCall

\* The call of search_approx as a whole; the buffers given are kept in args.
CallGiven ==
    /\ pc = "given"
    /\ args' = [layer_stack |-> layer_stack, iter_stack |-> iter_stack,
                result_buffer |-> result_buffer]
    /\ \E s \in {search_approx(trie, word, dist_max, layer_stack, iter_stack,
                                result_buffer)} :
          IF IsPanic(s)
          THEN /\ pc' = "panic"
               /\ UNCHANGED <<layer_stack, iter_stack, result_buffer, output>>
          ELSE /\ pc' = "returned"
               /\ layer_stack' = s.layer_stack
               /\ iter_stack' = s.iter_stack
               /\ result_buffer' = s.result_buffer
               /\ output' = s.result_buffer
    /\ UNCHANGED <<root, inserted, trie, entry, word, dist_max, fileVars, charsVars,
                   planVars, ret, shadow>>

SpecGiven == GivenInit /\ [][CallGiven]_vars

\* C12: search_approx of the empty query returns, for every threshold and
\* every trie (the empty one too), the result buffer as it was given, an
\* empty list for an empty buffer, and leaves the layer stack and the
\* iteration stack as they were.
C12_EmptyQueryReturnsBufferAsGiven ==
    (word = <<>> /\ pc # "given") =>
        /\ pc = "returned"
        /\ output = args.result_buffer
        /\ args.result_buffer = <<>> => output = <<>>
        /\ result_buffer = args.result_buffer
        /\ layer_stack = args.layer_stack
        /\ iter_stack = args.iter_stack

\* The empty query has been searched at distance 2 in a trie of two words,
\* with a layer stack, an iteration stack and a result buffer in use.
C12_Witness ==
    /\ pc = "returned"
    /\ word = <<>>
    /\ dist_max = 2
    /\ Len(trie.nodes) >= 2
    /\ args.layer_stack # EmptyLayerStack
    /\ args.iter_stack # <<>>
    /\ output = <<[word |-> <<98>>, freq |-> 4, dist |-> 1]>>

(***************************************************************************)
(* The scenario of the tests of the searches: a trie built by hand and     *)
(* compiled, then searched by the driver.                                  *)
(***************************************************************************)
ScenarioNode(letters, freq, children) ==
    [letters |-> letters, children |-> children, freq |-> freq]

\* "cata" (1) with 'd' (2) and 'f' (1); 'd' with 'a' (9), 'r' (6), 't' (1)
\* and 'w' (7); 'f' (5) with "ade" (10).
ScenarioRoot ==
    ScenarioNode(<<>>, 0, <<
        ScenarioNode(<<99, 97, 116, 97>>, 1, <<
            ScenarioNode(<<100>>, 2, <<>>), ScenarioNode(<<102>>, 1, <<>>) >>),
        ScenarioNode(<<100>>, 0, <<
            ScenarioNode(<<97>>, 9, <<>>), ScenarioNode(<<114>>, 6, <<>>),
            ScenarioNode(<<116>>, 1, <<>>), ScenarioNode(<<119>>, 7, <<>>) >>),
        ScenarioNode(<<102>>, 5, <<
            ScenarioNode(<<97, 100, 101>>, 10, <<>>) >>) >>)

\* "dat", "cata", "da", "fade", "cat", "dx"
ScenarioQueries ==
    {<<100, 97, 116>>, <<99, 97, 116, 97>>, <<100, 97>>, <<102, 97, 100, 101>>,
     <<99, 97, 116>>, <<100, 120>>, <<99, 116, 97, 97>>, <<102, 100, 97, 101>>}

ScenarioInit ==
    /\ pc = "ready"
    /\ root = ScenarioRoot
    /\ inserted = <<>>
    /\ trie = CompiledTrie_from(ScenarioRoot)
    /\ entry = "none"
    /\ word = <<>>
    /\ dist_max = 0
    /\ iter_stack = <<>>
    /\ layer_stack = EmptyLayerStack
    /\ result_buffer = <<>>
    /\ output = <<>>
    /\ NoFile /\ NoChars /\ NoPlan /\ NoCall

\* A query line of the scenario, of distance 0.
ScenarioSearchExact ==
    /\ pc = "ready"
    /\ \E w \in ScenarioQueries :
          /\ word' = w
          /\ output' = process_search_exact(trie, w)
    /\ dist_max' = 0
    /\ entry' = "process_search_exact"
    /\ pc' = "done"
    /\ UNCHANGED <<root, inserted, trie, iter_stack, layer_stack, result_buffer>>
    /\ UNCHANGED <<fileVars, charsVars, planVars, callVars, shadow>>

\* A query line of the scenario, of a positive distance.
ScenarioSearchApprox ==
    /\ pc = "ready"
    /\ \E w \in ScenarioQueries, d \in 0..MaxDist :
          EnterSearchApprox(w, d, clear(layer_stack), <<>>, <<>>)
    /\ entry' = "process_search_approx"
    /\ UNCHANGED <<root, inserted, trie>>
    /\ UNCHANGED <<fileVars, charsVars, planVars, callVars, shadow>>

ScenarioNext ==
    \/ ScenarioSearchExact
    \/ ScenarioSearchApprox
    \/ SearchTurn
    \/ SearchReturn

SpecScenario == ScenarioInit /\ [][ScenarioNext]_vars

ScenarioDatDone ==
    /\ pc = "done"
    /\ entry = "process_search_approx"
    /\ word = <<100, 97, 116>>
    /\ dist_max = 1

\* C13: on the trie of the scenario the approximate search of "dat" at the
\* distance 1 returns exactly (da, 9, 1), (dt, 1, 1), (dr, 6, 1), (dw, 7, 1).
C13_ScenarioDat ==
    ScenarioDatDone =>
        ListsExactly(output,
            {[word |-> <<100, 97>>, freq |-> 9, dist |-> 1],
             [word |-> <<100, 116>>, freq |-> 1, dist |-> 1],
             [word |-> <<100, 114>>, freq |-> 6, dist |-> 1],
             [word |-> <<100, 119>>, freq |-> 7, dist |-> 1]})

\* C13, amended: on the trie of the scenario the approximate search of "dat"
\* at the distance 1 returns the list (da, 9, 1), (dt, 1, 1) and nothing
\* else: "dr" and "dw" are at the distance 2 of "dat".
C13_ScenarioDatTwoWords ==
    ScenarioDatDone =>
        output = <<[word |-> <<100, 97>>, freq |-> 9, dist |-> 1],
                   [word |-> <<100, 116>>, freq |-> 1, dist |-> 1]>>

C13_Witness ==
    /\ ScenarioDatDone
    /\ Len(output) = 2
    /\ EditDistance(<<100, 114>>, word) = 2
    /\ EditDistance(<<100, 119>>, word) = 2


(***************************************************************************)
(* The sort of the found words on its own: process_search_approx sorts the *)
(* buffer that search_approx returned.  The buffers given here hold up to  *)
(* MaxFound found words, in any order, repeated or not.                    *)
(***************************************************************************)
MaxFound == 3
SortWords == {<<97>>, <<97, 98>>, <<233>>}
SortFounds == [word : SortWords, freq : {1, 2}, dist : {0, 1}]

SortInit ==
    /\ pc = "sort"
    /\ NoProgram /\ NoFile /\ NoChars /\ NoPlan
    /\ args \in SeqsUpTo(SortFounds, MaxFound)
    /\ ret = <<>>
    /\ shadow = <<>>

\* result_buffer.sort_unstable() of process_search_approx.
SortResults ==
    /\ pc = "sort"
    /\ pc' = "sorted"
    /\ ret' = sort_unstable(args)
    /\ UNCHANGED <<root, inserted, trie, searchVars, fileVars, charsVars, planVars,
                   args, shadow>>

SpecSort == SortInit /\ [][SortResults]_vars

\* The word a is the word b or comes before it, character by character.
WordAtMost(a, b) ==
    \/ a = b
    \/ \E k \in 1..Len(b) :
          /\ \A i \in 1..(k - 1) : i <= Len(a) /\ a[i] = b[i]
          /\ k > Len(a) \/ a[k] < b[k]

\* a is not after b: distance ascending, then frequency descending, then
\* word ascending.
InResultOrder(a, b) ==
    \/ a.dist < b.dist
    \/ a.dist = b.dist /\ a.freq > b.freq
    \/ a.dist = b.dist /\ a.freq = b.freq /\ WordAtMost(a.word, b.word)

\* Over the found words of S the comparison is a total order.
TotalOrderOver(S) ==
    /\ \A a \in S : ~FoundWord_less(a, a)
    /\ \A a, b \in S : a # b => (FoundWord_less(a, b) <=> ~FoundWord_less(b, a))
    /\ \A a, b, c \in S :
          FoundWord_less(a, b) /\ FoundWord_less(b, c) => FoundWord_less(a, c)
    /\ \A a, b \in S : FoundWord_less(a, b) => InResultOrder(a, b)

SameBag(a, b) ==
    \A x \in SeqToSet(a) \cup SeqToSet(b) :
        Cardinality({i \in 1..Len(a) : a[i] = x}) = Cardinality({i \in 1..Len(b) : b[i] = x})

\* C14: the comparison of the found words is a total order (distance
\* ascending, then frequency descending, then word ascending), and in the
\* sorted buffer, which holds the found words of the given one, every
\* adjacent pair is in this order.
C14_SortedInResultOrder ==
    pc = "sorted" =>
        /\ TotalOrderOver(SeqToSet(args))
        /\ SameBag(args, ret)
        /\ \A i \in 1..(Len(ret) - 1) : InResultOrder(ret[i], ret[i + 1])

\* A buffer given out of order in each of the three keys.
C14_Witness ==
    /\ pc = "sorted"
    /\ Len(args) = 3
    /\ args # ret
    /\ args[1].dist > args[2].dist
    /\ args[2].dist = args[3].dist /\ args[2].freq < args[3].freq


(***************************************************************************)
(* cmp_min_with_max_dist on its own: rows of up to MaxRowLen distances     *)
(* against a threshold.                                                    *)
(***************************************************************************)
MaxRowLen == 4
RowCells == 2..6
RowThresholds == 2..4

CmpInit ==
    /\ pc = "cmp"
    /\ NoProgram /\ NoFile /\ NoChars /\ NoPlan
    /\ args \in [cur_layer : SeqsUpTo(RowCells, MaxRowLen), dist_max : RowThresholds]
    /\ ret = <<>>
    /\ shadow = <<>>

CallCmp ==
    /\ pc = "cmp"
    /\ pc' = "compared"
    /\ ret' = cmp_min_with_max_dist(args.cur_layer, args.dist_max)
    /\ UNCHANGED <<root, inserted, trie, searchVars, fileVars, charsVars, planVars,
                   args, shadow>>

SpecCmp == CmpInit /\ [][CallCmp]_vars

\* The 0-based positions of the row, in increasing order, whose cell is T.
PositionsEqual(row, T) ==
    SelectSeq([i \in 1..Len(row) |-> i - 1], LAMBDA i : row[i + 1] = T)

\* The classification of the row against the threshold T.
ClassifiedRight(row, T, r) ==
    LET someLess == \E i \in 1..Len(row) : row[i] < T
        someEqual == \E i \in 1..Len(row) : row[i] = T
        allGreater == \A i \in 1..Len(row) : row[i] > T
    IN /\ (r.ord = "Less" /\ r.equals = <<>>) <=> someLess
       /\ (r.ord = "Equal" /\ r.equals = PositionsEqual(row, T)) <=> (~someLess /\ someEqual)
       /\ (r.ord = "Greater" /\ r.equals = <<>>) <=> allGreater
       /\ r.ord \in {"Less", "Equal", "Greater"}

\* C15: cmp_min_with_max_dist answers Less with an empty list exactly when a
\* cell is below the threshold T, Equal with the ascending list of all the
\* positions holding T exactly when no cell is below T and one holds T, and
\* Greater with an empty list exactly when every cell is above T; so
\* [5,3,4,6] at 3 is Equal {1}, [5,6,4,4] Greater, [5,3,2,6] Less.
C15_MinAgainstThreshold ==
    pc = "compared" =>
        /\ ClassifiedRight(args.cur_layer, args.dist_max, ret)
        /\ (args = [cur_layer |-> <<5, 3, 4, 6>>, dist_max |-> 3])
              => ret = [ord |-> "Equal", equals |-> <<1>>]
        /\ (args = [cur_layer |-> <<5, 6, 4, 4>>, dist_max |-> 3])
              => ret = [ord |-> "Greater", equals |-> <<>>]
        /\ (args = [cur_layer |-> <<5, 3, 2, 6>>, dist_max |-> 3])
              => ret = [ord |-> "Less", equals |-> <<>>]

\* A row with a cell at the threshold before a cell below it.
C15_Witness ==
    /\ pc = "compared"
    /\ args = [cur_layer |-> <<5, 3, 2, 6>>, dist_max |-> 3]
    /\ ret.ord = "Less"


(***************************************************************************)
(* The layer stack on its own.  `shadow` is the stack as a list of layers, *)
(* each with the values last written to it; `args` is the last call and    *)
(* `ret` what it returned.                                                 *)
(***************************************************************************)
MaxLayers == 3
MaxLayerSize == 2
LayerValues == {0, 7}

StackInit ==
    /\ pc = "stack"
    /\ NoProgram /\ NoFile /\ NoChars /\ NoPlan
    /\ args = <<>>
    /\ ret = <<>>
    /\ shadow = <<>>

StackUnchanged ==
    UNCHANGED <<pc, root, inserted, trie, entry, word, dist_max, iter_stack,
                result_buffer, output, fileVars, charsVars, planVars>>

\* push_layer(layer_char, size); the first layer may come without character.
StackPush ==
    /\ pc = "stack"
    /\ Len(layer_stack.layers) < MaxLayers
    /\ \E size \in 0..MaxLayerSize,
          ch \in IF layer_stack.layers = <<>> THEN {-1, 97} ELSE {97} :
          /\ layer_stack' = push_layer(layer_stack, ch, size)
          /\ args' = [op |-> "push_layer", size |-> size]
          /\ shadow' = Append(shadow, Repeat(0, size))
    /\ ret' = fetch_layer(layer_stack')
    /\ StackUnchanged

\* The caller writes the layer through the slice that push_layer returned.
StackWrite ==
    /\ pc = "stack"
    /\ layer_stack.layers # <<>>
    /\ \E layer \in [1..Last(layer_stack.layers) -> LayerValues] :
          /\ layer # fetch_layer(layer_stack)
          /\ layer_stack' = WriteCurLayer(layer_stack, layer)
          /\ shadow' = Append(Front(shadow), layer)
    /\ args' = [op |-> "write"]
    /\ ret' = <<>>
    /\ StackUnchanged

StackPop ==
    /\ pc = "stack"
    /\ layer_stack' = pop_layer(layer_stack)
    /\ ret' = pop_layer_popped(layer_stack)
    /\ args' = [op |-> "pop_layer", before |-> layer_stack]
    /\ shadow' = IF shadow = <<>> THEN <<>> ELSE Front(shadow)
    /\ StackUnchanged

StackFetch ==
    /\ pc = "stack"
    /\ ret' = [some |-> fetch_layer_is_some(layer_stack), layer |-> fetch_layer(layer_stack)]
    /\ args' = [op |-> "fetch_layer"]
    /\ UNCHANGED <<layer_stack, shadow>>
    /\ StackUnchanged

StackFetch3 ==
    /\ pc = "stack"
    /\ ret' = fetch_last_3_layers(layer_stack)
    /\ args' = [op |-> "fetch_last_3_layers"]
    /\ UNCHANGED <<layer_stack, shadow>>
    /\ StackUnchanged

StackNext == StackPush \/ StackWrite \/ StackPop \/ StackFetch \/ StackFetch3

SpecStack == StackInit /\ [][StackNext]_vars

Called(op) == pc = "stack" /\ args # <<>> /\ args.op = op

\* The elements of the slice sl of the stack.
SliceOf(ls, sl) == Slice(ls.elements, sl.from, sl.to)

\* The k-th layer from the top of the list of layers, <<>> if there is none.
FromTop(k) == IF k <= Len(shadow) THEN shadow[Len(shadow) + 1 - k] ELSE <<>>

\* The positions of the elements of a slice.
Region(sl) == {i \in 0..Len(layer_stack.elements) : sl.from <= i /\ i < sl.to}

\* C16: fetch_last_3_layers returns the top layer, the one below it and the
\* one two below it, each with the size it was pushed with and the values
\* last written to it, an empty slice for each layer the stack does not
\* have, and the three regions are pairwise disjoint.
C16_LastThreeLayers ==
    Called("fetch_last_3_layers") =>
        /\ Len(ret) = 3
        /\ \A k \in 1..3 :
              /\ SliceLen(ret[k]) = Len(FromTop(k))
              /\ SliceOf(layer_stack, ret[k]) = FromTop(k)
              /\ k > Len(shadow) => SliceIsEmpty(ret[k])
        /\ \A j, k \in 1..3 : j # k => Region(ret[j]) \cap Region(ret[k]) = {}

\* Three layers of the sizes 1, 2, 1, written to.
C16_Witness ==
    /\ Called("fetch_last_3_layers")
    /\ Len(shadow) = 3
    /\ FromTop(1) = <<7>>
    /\ FromTop(2) = <<7, 0>>
    /\ FromTop(3) = <<7>>

\* The stack holds the layers of the list, in order, and nothing else.
HoldsTheLayers ==
    /\ layer_stack.layers = [i \in 1..Len(shadow) |-> Len(shadow[i])]
    /\ layer_stack.elements = Concat(shadow)

\* C17: the layer stack is last in, first out.  fetch_layer returns the
\* layer pushed last and not popped, with its size and the values last
\* written to it, and nothing exactly when the stack is empty; pop_layer
\* returns true and removes exactly that layer when there is one, and
\* returns false and leaves the stack as it is when there is none.
C17_LastInFirstOut ==
    pc = "stack" =>
        /\ HoldsTheLayers
        /\ Called("fetch_layer") =>
              /\ ret.some <=> shadow # <<>>
              /\ ret.some => ret.layer = Last(shadow)
        /\ Called("pop_layer") =>
              IF args.before.layers # <<>>
              THEN /\ ret = TRUE
                   /\ layer_stack.layers = Front(args.before.layers)
                   /\ layer_stack.elements
                        = SubSeq(args.before.elements, 1,
                                 Len(args.before.elements) - Last(args.before.layers))
              ELSE ret = FALSE /\ layer_stack = args.before
        /\ Called("push_layer") => ret = Repeat(0, args.size)

\* A written layer was popped and the written layer below it is the top.
C17_Witness ==
    /\ Called("pop_layer")
    /\ ret = TRUE
    /\ Len(args.before.layers) = 3
    /\ Last(args.before.layers) = 1
    /\ Last(args.before.elements) = 7
    /\ Last(shadow) = <<0, 7>>
    /\ fetch_layer(layer_stack) = <<0, 7>>


(***************************************************************************)
(* The index binary on its own: insertions, then the compilation.  The     *)
(* compiled trie is read back layer by layer, as the searches read it, and *)
(* compared with the intermediate trie it was compiled from.               *)
(***************************************************************************)
BuildNext == Insert \/ Compile

SpecBuild == Init /\ [][BuildNext]_vars

\* The first and the last character that a node of a layer answers for.
KeyLow(t, node) ==
    IF node_value(node) = "Naive" THEN node.node_union.character
    ELSE IF node_value(node) = "Patricia"
    THEN get_char_unchecked(t, patricia_range(node).start)
    ELSE node.node_union.first_char

KeyHigh(t, node) ==
    IF node_value(node) = "Range"
    THEN node.node_union.first_char
           + (node.node_union.end_index - node.node_union.start_index) - 1
    ELSE KeyLow(t, node)

\* The element at the offset k of a range node, as the child it stands for.
RangeEntry(t, node, k) ==
    Let(get_range_element_unchecked(t, node.node_union.start_index, k), LAMBDA e :
        [letters |-> <<node.node_union.first_char + k>>,
         freq |-> e.word_freq,
         first |-> e.index_first_child])

\* The children that a node of a layer stands for: [letters, freq, first],
\* first the index of the first node of the layer below (0 for none).
NodeEntries(t, node) ==
    IF node_value(node) = "Naive"
    THEN <<[letters |-> <<node.node_union.character>>,
            freq |-> node.node_union.word_freq,
            first |-> node.node_union.index_first_child]>>
    ELSE IF node_value(node) = "Patricia"
    THEN <<[letters |-> get_chars(t, patricia_range(node).start, patricia_range(node).end),
            freq |-> node.node_union.word_freq,
            first |-> node.node_union.index_first_child]>>
    ELSE SelectSeq([k \in 1..(node.node_union.end_index - node.node_union.start_index)
                       |-> RangeEntry(t, node, k - 1)],
                   LAMBDA e : e.freq # 0 \/ e.first # 0)

LayerEntries(t, sl) ==
    Concat([j \in 1..SliceLen(sl) |-> NodeEntries(t, t.nodes[sl.from + j])])

\* The slice is a layer of the nodes array: inside the array, each node
\* counting the siblings that follow it, the keys strictly ascending.
IsSortedLayer(t, sl) ==
    /\ 0 <= sl.from /\ sl.from < sl.to /\ sl.to <= Len(t.nodes)
    /\ \A j \in 1..SliceLen(sl) :
          /\ nb_siblings(t.nodes[sl.from + j]) = SliceLen(sl) - j
          /\ node_value(t.nodes[sl.from + j]) = "Range" =>
                /\ t.nodes[sl.from + j].node_union.start_index
                     < t.nodes[sl.from + j].node_union.end_index
                /\ t.nodes[sl.from + j].node_union.end_index <= Len(t.ranges)
    /\ \A j \in 1..(SliceLen(sl) - 1) :
          KeyHigh(t, t.nodes[sl.from + j]) < KeyLow(t, t.nodes[sl.from + j + 1])

RECURSIVE StandsFor(_, _, _)
\* The layer sl, and every layer below it, holds the children `children` of
\* a node of the intermediate trie and their descendants.
EntriesStandFor(t, children, entries) ==
    /\ Len(entries) = Len(children)
    /\ \A i \in 1..Len(children) :
          /\ entries[i].letters = children[i].letters
          /\ entries[i].freq = children[i].freq
          /\ IF children[i].children = <<>> THEN entries[i].first = 0
             ELSE /\ entries[i].first > 0
                  /\ entries[i].first < Len(t.nodes)
                  /\ StandsFor(t, children[i].children,
                               get_siblings(t, entries[i].first))

StandsFor(t, children, sl) ==
    /\ IsSortedLayer(t, sl)
    /\ EntriesStandFor(t, children, LayerEntries(t, sl))

RECURSIVE LayersUnder(_, _)
\* The layers of the compiled trie from the layer sl downwards.
LayersUnder(t, sl) ==
    {sl} \cup UNION {LayersUnder(t, get_siblings(t, first)) :
                       first \in {e.first : e \in SeqToSet(LayerEntries(t, sl))} \ {0}}

\* The layers are disjoint pieces of the nodes array and fill it.
LayersTileTheArray(t) ==
    Let(LayersUnder(t, get_root_siblings(t).slice), LAMBDA L :
        /\ \A a, b \in L : a # b => (a.to <= b.from \/ b.to <= a.from)
        /\ \A i \in 0..(Len(t.nodes) - 1) : \E a \in L : a.from <= i /\ i < a.to)

Compiled == pc = "ready" /\ inserted # <<>>

\* C19: after insertions and the compilation every layer of siblings is a
\* contiguous piece of the nodes array, strictly ascending by key (the key
\* of a range node is its interval), so no two siblings share a first
\* character or overlap; the element at the offset k of a range node stands
\* for the character first_char + k, and the elements of the characters
\* that are no child have both fields unset.
C19_LayersContiguousAndSorted ==
    Compiled =>
        /\ StandsFor(trie, root.children, get_root_siblings(trie).slice)
        /\ LayersTileTheArray(trie)

\* A root layer of a range with a gap followed by another node, and a
\* substring node.
C19_Witness ==
    /\ Compiled
    /\ SliceLen(get_root_siblings(trie).slice) >= 2
    /\ node_value(trie.nodes[1]) = "Range"
    /\ \E k \in 1..Len(trie.ranges) :
          trie.ranges[k] = [index_first_child |-> 0, word_freq |-> 0]
    /\ \E k \in 1..Len(trie.nodes) : node_value(trie.nodes[k]) = "Patricia"


(***************************************************************************)
(* The turn of the loop of search_approx on a node with children whose row *)
(* has its minimum at the threshold.                                       *)
(***************************************************************************)
\* The stacks once the rows of the node on top of the iteration stack are
\* pushed.
RowsPushed ==
    push_layers_current_node(Last(iter_stack), word, Len(word), trie,
                             layer_stack, Front(iter_stack))

\* The next turn visits a node with children, the minimum of its row equal
\* to the threshold.
EqualCaseTurn ==
    /\ pc = "search"
    /\ iter_stack # <<>>
    /\ Last(iter_stack) # NoneElem
    /\ ~SliceIsEmpty(get_node_children(trie, Last(iter_stack)))
    /\ cmp_min_with_max_dist(fetch_layer(RowsPushed.layer_stack), dist_max).ord = "Equal"

\* C20: the turn on a node with children whose row has its minimum at the
\* threshold leaves the layer stack as the turns of the cases "no children"
\* and "minimum above the threshold" leave it: with the row of the node
\* popped.
C20_EqualBranchPopsRow ==
    [][EqualCaseTurn => layer_stack' = pop_layer(RowsPushed.layer_stack)]_vars


(***************************************************************************)
(* The visits of the compiled trie and the path of each: a visit is a node *)
(* of the nodes array and, for a range node, an offset of a present        *)
(* element; its path is the string from the root to it, inclusive.         *)
(***************************************************************************)
RECURSIVE VisitsUnder(_, _, _)
\* The visits of the node at the index i under the path `prefix`.
VisitsOfNode(t, i, prefix) ==
    Let(t.nodes[i + 1], LAMBDA node :
        IF node_value(node) = "Range"
        THEN UNION {Let(RangeEntry(t, node, k), LAMBDA e :
                        IF e.freq = 0 /\ e.first = 0 THEN {}
                        ELSE {[node |-> i, range_offset |-> k,
                               path |-> prefix \o e.letters]}
                             \cup (IF e.first = 0 THEN {}
                                   ELSE VisitsUnder(t, get_siblings(t, e.first),
                                                    prefix \o e.letters))) :
                    k \in 0..(node.node_union.end_index - node.node_union.start_index - 1)}
        ELSE Let(NodeEntries(t, node)[1], LAMBDA e :
                 {[node |-> i, range_offset |-> 0, path |-> prefix \o e.letters]}
                 \cup (IF e.first = 0 THEN {}
                       ELSE VisitsUnder(t, get_siblings(t, e.first),
                                        prefix \o e.letters))))

VisitsUnder(t, sl, prefix) ==
    UNION {VisitsOfNode(t, i, prefix) : i \in sl.from..(sl.to - 1)}

Visits(t) ==
    IF t.nodes = <<>> THEN {} ELSE VisitsUnder(t, get_root_siblings(t).slice, <<>>)

\* The path of the visit that a record of the iteration stack stands for.
PathOf(t, iter_elem) ==
    (CHOOSE v \in Visits(t) :
        v.node = iter_elem.node /\ v.range_offset = iter_elem.range_offset).path

\* The next turn of the loop visits a node.
VisitTurn ==
    /\ pc = "search"
    /\ iter_stack # <<>>
    /\ Last(iter_stack) # NoneElem

\* C21: at every visit of a node, once its rows are pushed, the layer stack
\* holds the seed row and one row for each character of the path from the
\* root to the node, and get_layers_word is this path.
C21_RowsFollowThePath ==
    VisitTurn =>
        /\ Len(RowsPushed.layer_stack.layers) = 1 + Len(PathOf(trie, Last(iter_stack)))
        /\ get_layers_word(RowsPushed.layer_stack) = PathOf(trie, Last(iter_stack))


(***************************************************************************)
(* The exact searches of the turn on a node whose row has its minimum at   *)
(* the threshold, against the descent they stand for.                      *)
(***************************************************************************)
\* At the visit the layer stack holds the rows of the path of the node.
RowsOnPath ==
    /\ Len(RowsPushed.layer_stack.layers) = 1 + Len(PathOf(trie, Last(iter_stack)))
    /\ get_layers_word(RowsPushed.layer_stack) = PathOf(trie, Last(iter_stack))

\* The result buffer of the turn once the word of the node is checked.
NodeChecked ==
    check_add_word_to_result(Last(iter_stack), fetch_layer(RowsPushed.layer_stack),
                             dist_max, get_layers_word(RowsPushed.layer_stack),
                             trie, result_buffer)

\* The inserted words strictly below the path p.
WordsBelow(p) ==
    {w \in InsertedWords : Len(w) > Len(p) /\ SubSeq(w, 1, Len(p)) = p}

\* C22: the exact searches of the branch of the minimum equal to the
\* threshold T add exactly the words of the dictionary strictly below the
\* node at a distance of the query of at most T, each with its frequency and
\* the distance T, the words reached through a transposition of the last
\* character of the node and the first of a child included.
C22_BailoutIsTheDescent ==
    [][(EqualCaseTurn /\ RowsOnPath) =>
          SeqToSet(SubSeq(result_buffer', Len(NodeChecked) + 1, Len(result_buffer')))
            = {[word |-> w, freq |-> LastFreq(w), dist |-> dist_max] :
                 w \in {v \in WordsBelow(PathOf(trie, Last(iter_stack))) :
                            EditDistance(v, word) <= dist_max}}]_vars


\* C23: search_approx on a non-empty query comes to its return, and at the
\* return the iteration stack and the layer stack are both empty: every row
\* pushed during the search, the seed row included, has been popped.
C23_StacksEmptyAtReturn ==
    (ApproxDone /\ word # <<>>) =>
        /\ iter_stack = <<>>
        /\ layer_stack.layers = <<>>
        /\ layer_stack.elements = <<>>


(***************************************************************************)
(* The loop of the driver over several query lines: the buffers created    *)
(* once by process_stdin_queries are handed to every query.  `args` lists  *)
(* the queries processed; `ret` is the answer to the last query with       *)
(* buffers created anew.                                                   *)
(***************************************************************************)
MaxQueries == 2
ReuseDicts ==
    {<<<<97>>, <<97, 99>>>>,
     <<<<97>>, <<97, 97>>, <<99>>>>,
     <<<<97>>, <<97, 97>>, <<99>>, <<99, 97>>>>,
     <<<<97, 97>>, <<97, 99>>, <<99, 97>>, <<99, 99>>>>}
ReuseQueries == {<<97>>, <<98>>, <<99>>, <<97, 99>>}

ReuseInit ==
    /\ pc = "ready"
    /\ inserted \in ReuseDicts
    /\ root = insert_all(create_empty, inserted, 1)
    /\ trie = CompiledTrie_from(root)
    /\ entry = "none"
    /\ word = <<>>
    /\ dist_max = 0
    /\ iter_stack = <<>>
    /\ layer_stack = EmptyLayerStack
    /\ result_buffer = <<>>
    /\ output = <<>>
    /\ NoFile /\ NoChars /\ NoPlan /\ NoCall

\* process_search_approx as a whole, on the buffers given: the state of the
\* buffers at its return, the result buffer sorted.
process_search_approx(t, w, distance, ls, is, rb) ==
    Let(search_approx(t, w, distance, clear(ls), <<>>, <<>>), LAMBDA s :
        IF IsPanic(s) THEN s
        ELSE [s EXCEPT !.result_buffer = sort_unstable(s.result_buffer)])

\* One query line of the loop of process_stdin_queries.
DriverQuery ==
    /\ pc = "ready"
    /\ Len(args) < MaxQueries
    /\ \E w \in ReuseQueries, d \in 0..MaxDist :
          /\ word' = w
          /\ dist_max' = d
          /\ args' = Append(args, [word |-> w, dist |-> d])
          /\ IF d = 0
             THEN /\ entry' = "process_search_exact"
                  /\ output' = process_search_exact(trie, w)
                  /\ ret' = process_search_exact(trie, w)
                  /\ pc' = pc
                  /\ UNCHANGED <<layer_stack, iter_stack, result_buffer>>
             ELSE /\ entry' = "process_search_approx"
                  /\ ret' = process_search_approx(trie, w, d, EmptyLayerStack, <<>>, <<>>).result_buffer
                  /\ \E s \in {process_search_approx(trie, w, d, layer_stack, iter_stack,
                                                      result_buffer)} :
                        IF IsPanic(s)
                        THEN /\ pc' = "panic"
                             /\ UNCHANGED <<layer_stack, iter_stack, result_buffer, output>>
                        ELSE /\ pc' = pc
                             /\ layer_stack' = s.layer_stack
                             /\ iter_stack' = s.iter_stack
                             /\ result_buffer' = s.result_buffer
                             /\ output' = s.result_buffer
    /\ UNCHANGED <<root, inserted, trie, fileVars, charsVars, planVars, shadow>>

SpecReuse == ReuseInit /\ [][DriverQuery]_vars

\* The answer to the last query is the answer with buffers created anew.
AnswersAsFresh == output = ret

\* The layer stack that the next query starts on has an empty word.
WordEmptyOnceCleared == get_layers_word(clear(layer_stack)) = <<>>

\* C24: the answer to each query of the loop is the answer to the same
\* query with buffers created anew, and the layer stack, once cleared for
\* the next query, has an empty word.
C24_ReuseIsFresh ==
    (pc = "ready" /\ args # <<>>) => (AnswersAsFresh /\ WordEmptyOnceCleared)


(***************************************************************************)
(* The visit of a substring node.                                          *)
(***************************************************************************)
RECURSIVE SumOf(_)
SumOf(sizes) == IF sizes = <<>> THEN 0 ELSE sizes[1] + SumOf(Tail(sizes))

\* The j-th row of the layer stack, from the bottom; <<>> if j is 0 or less.
RowAt(ls, j) ==
    IF j < 1 THEN <<>>
    ELSE Slice(ls.elements, SumOf(SubSeq(ls.layers, 1, j - 1)),
               SumOf(SubSeq(ls.layers, 1, j)))

\* The next turn visits a substring node.
SubstringVisit ==
    /\ VisitTurn
    /\ node_value(trie.nodes[Last(iter_stack).node + 1]) = "Patricia"

\* The characters of the substring node that the next turn visits.
VisitedSubstring ==
    get_chars(trie, patricia_range(trie.nodes[Last(iter_stack).node + 1]).start,
              patricia_range(trie.nodes[Last(iter_stack).node + 1]).end)

\* The rows pushed for the substring chars, on the stack `before`, are in
\* `after`: one for each character, each computed from the two rows under
\* it with the character before it on the path as the predecessor.
SubstringRows(before, after, chars, last_char) ==
    /\ Len(after.layers) = Len(before.layers) + Len(chars)
    /\ SubSeq(after.layers, 1, Len(before.layers)) = before.layers
    /\ SubSeq(after.elements, 1, Len(before.elements)) = before.elements
    /\ after.word = before.word \o chars
    /\ \A j \in 1..Len(chars) :
          RowAt(after, Len(before.layers) + j)
            = compute_layer(RowAt(after, Len(before.layers) + j - 1),
                            RowAt(after, Len(before.layers) + j - 2),
                            word,
                            IF j = 1 THEN last_char ELSE chars[j - 1],
                            chars[j])

NodeOf(iter_elem) == trie.nodes[iter_elem.node + 1]

IsRangeRecord(iter_elem) ==
    iter_elem # NoneElem /\ node_value(NodeOf(iter_elem)) = "Range"

\* The offsets of the present elements of a range node.
PresentOffsets(node) ==
    {k \in 0..(node.node_union.end_index - node.node_union.start_index - 1) :
        trie.ranges[node.node_union.start_index + k + 1]
            # [index_first_child |-> 0, word_freq |-> 0]}

\* The next turn visits an element of a range node.
RangeVisit == VisitTurn /\ IsRangeRecord(Last(iter_stack))

\* The records that the visit at the offset o must leave for the node: the
\* one of the next present offset, none after the last present offset.
NextRangeRecords(iter_elem) ==
    Let({k \in PresentOffsets(NodeOf(iter_elem)) : k > iter_elem.range_offset}, LAMBDA later :
        IF later = {} THEN <<>>
        ELSE <<[iter_elem EXCEPT !.range_offset = CHOOSE k \in later : \A m \in later : k <= m]>>)

\* C26: the records of a range node on the iteration stack are at present
\* elements only; the first present element is at the offset 0, where the
\* records pushed with the layer begin; the visit at an offset pushes one
\* row, for the character first_char + offset, and the record of the next
\* present offset, with no layer-end sentinel, or nothing after the last
\* present element; the lookup of the next present offset does not fail.
\* So the visits of the node go through its present elements once each, in
\* ascending order.
C26_RangeVisitsPresentElementsInOrder ==
    /\ pc = "search" =>
          \A i \in 1..Len(iter_stack) :
              IsRangeRecord(iter_stack[i]) =>
                  /\ iter_stack[i].range_offset \in PresentOffsets(NodeOf(iter_stack[i]))
                  /\ 0 \in PresentOffsets(NodeOf(iter_stack[i]))
    /\ RangeVisit =>
          /\ RowsPushed.iter_stack
               = Front(iter_stack) \o NextRangeRecords(Last(iter_stack))
          /\ \A i \in 1..Len(RowsPushed.iter_stack) :
                RowsPushed.iter_stack[i].range_offset # -1
          /\ Len(RowsPushed.layer_stack.layers) = Len(layer_stack.layers) + 1
          /\ Last(get_layers_word(RowsPushed.layer_stack))
               = NodeOf(Last(iter_stack)).node_union.first_char
                   + Last(iter_stack).range_offset

\* The visit of 'r' in the range 'r'..'w' under 'd': 's' is absent and the
\* record pushed is the one of 't', at the offset 2.
C26_Witness ==
    /\ RangeVisit
    /\ NodeOf(Last(iter_stack)).node_union.first_char = 114
    /\ Last(iter_stack).range_offset = 0
    /\ PresentOffsets(NodeOf(Last(iter_stack))) = {0, 2, 5}
    /\ Last(RowsPushed.iter_stack).range_offset = 2


(***************************************************************************)
(* The first-child indices of the compiled trie.                           *)
(***************************************************************************)
RECURSIVE SubtreeSize(_, _)
\* The number of nodes of the layer that begins at `first` and of all the
\* layers below it; 0 for no layer.
SubtreeSize(t, first) ==
    IF first = 0 THEN 0
    ELSE Let(LayerEntries(t, get_siblings(t, first)), LAMBDA entries :
             SliceLen(get_siblings(t, first))
               + SumOf([i \in 1..Len(entries) |-> SubtreeSize(t, entries[i].first)]))

RECURSIVE FirstChildrenRight(_, _, _)
\* Down from the layer sl, which holds `children`: each child with children
\* has the index at which the nodes array stood when its own children were
\* compiled (the end of the layer, then the end of the subtree of the child
\* before it), where the layer of its children begins; a child without
\* children has none.
FirstChildrenRight(t, children, sl) ==
    Let(LayerEntries(t, sl), LAMBDA entries :
        /\ Len(entries) = Len(children)
        /\ \A i \in 1..Len(children) :
              IF children[i].children = <<>> THEN entries[i].first = 0
              ELSE /\ entries[i].first > 0
                   /\ entries[i].first < Len(t.nodes)
                   /\ entries[i].first
                        = sl.to + SumOf([j \in 1..(i - 1) |->
                                           SubtreeSize(t, entries[j].first)])
                   /\ [k \in 1..Len(children[i].children) |->
                          children[i].children[k].letters]
                        = [k \in 1..Len(LayerEntries(t, get_siblings(t, entries[i].first))) |->
                             LayerEntries(t, get_siblings(t, entries[i].first))[k].letters]
                   /\ FirstChildrenRight(t, children[i].children,
                                         get_siblings(t, entries[i].first)))

\* No node and no range element holds the placeholder index.
NoDummyIndexLeft(t) ==
    /\ \A i \in 1..Len(t.nodes) :
          node_value(t.nodes[i]) # "Range"
              => t.nodes[i].node_union.index_first_child # dummy_index
    /\ \A i \in 1..Len(t.ranges) : t.ranges[i].index_first_child # dummy_index

\* C27: after the construction the first-child index of every naive node,
\* substring node and present range element is the index of the first node
\* of the layer compiled from the children of the child it stands for, is
\* absent exactly when this child has no children, and is never 0; no
\* placeholder index is left, and the present elements of a range node
\* receive, in the order of the characters, the indices of the children of
\* the range in their order.
C27_FirstChildIndices ==
    Compiled =>
        /\ NoDummyIndexLeft(trie)
        /\ FirstChildrenRight(trie, root.children, get_root_siblings(trie).slice)

\* A range node with a gap whose first present element has children, at the
\* index just after the root layer, and whose last one is a word without.
C27_Witness ==
    /\ Compiled
    /\ node_value(trie.nodes[1]) = "Range"
    /\ Len(trie.ranges) = 3
    /\ trie.ranges[1].index_first_child = get_root_siblings(trie).slice.to
    /\ trie.ranges[2] = [index_first_child |-> 0, word_freq |-> 0]
    /\ trie.ranges[3].index_first_child = 0
    /\ trie.ranges[3].word_freq > 0


(***************************************************************************)
(* The sibling counts of the compiled trie.                                *)
(***************************************************************************)
\* The variant of the node emitted for an entry of the emission plan.
VariantOf(heuristic) == IF heuristic.kind = "Simple" THEN "Naive" ELSE heuristic.kind

RECURSIVE SiblingCountsRight(_, _, _)
\* Down from the layer that begins at sl.from and holds `children`: the
\* slice sl that get_siblings returns for it is inside the nodes array and
\* has one node for each entry of the emission plan of the children, of the
\* variant of the entry, the node at the position i counting n - 1 - i
\* right siblings.
SiblingCountsRight(t, children, sl) ==
    Let(node_type_heuristic([i \in 1..Len(children) |-> children[i].letters]),
        LAMBDA plan :
            /\ SliceLen(sl) = Len(plan)
            /\ sl.to <= Len(t.nodes)
            /\ \A i \in 0..(Len(plan) - 1) :
                  /\ nb_siblings(t.nodes[sl.from + i + 1]) = Len(plan) - 1 - i
                  /\ node_value(t.nodes[sl.from + i + 1]) = VariantOf(plan[i + 1])
            /\ Len(LayerEntries(t, sl)) = Len(children)
            /\ \A i \in 1..Len(children) :
                  children[i].children # <<>> =>
                      /\ LayerEntries(t, sl)[i].first > 0
                      /\ LayerEntries(t, sl)[i].first < Len(t.nodes)
                      /\ SiblingCountsRight(t, children[i].children,
                              get_siblings(t, LayerEntries(t, sl)[i].first)))

\* C28: the node emitted at the position i of a layer whose emission plan
\* has n entries stores the right-sibling count n - 1 - i, so get_siblings
\* and get_root_siblings, at the first index of a layer, return the n nodes
\* of the layer: no node of another layer, nothing past the end of the
\* nodes array.
C28_SiblingCounts ==
    Compiled =>
        /\ SiblingCountsRight(trie, root.children, get_root_siblings(trie).slice)
        /\ LayersTileTheArray(trie)

\* A root layer of two nodes and, after it, the layer of the children of one
\* of them.
C28_Witness ==
    /\ Compiled
    /\ get_root_siblings(trie).slice = [from |-> 0, to |-> 2]
    /\ nb_siblings(trie.nodes[1]) = 1
    /\ nb_siblings(trie.nodes[2]) = 0
    /\ Len(trie.nodes) = 3
    /\ get_siblings(trie, 2) = [from |-> 2, to |-> 3]


(***************************************************************************)
(* add_range on its own: a run of single-character children, ascending,    *)
(* each at most MAX_DIST_IN_RANGE after the one before it, added after the *)
(* ranges that the array already holds.  A child is a word (a frequency)   *)
(* or has children (no frequency here).                                    *)
(***************************************************************************)
MaxRangeSpan == 5
RangeRunChars == 97..(97 + MaxRangeSpan)

\* The characters of C in ascending order.
RECURSIVE Ascending(_)
Ascending(C) ==
    IF C = {} THEN <<>>
    ELSE Let(CHOOSE c \in C : \A d \in C : c <= d, LAMBDA c : <<c>> \o Ascending(C \ {c}))

IsRun(C) ==
    /\ Cardinality(C) >= 2
    /\ \A c \in C : c = Ascending(C)[1] \/ \E d \in C : d < c /\ c - d <= MAX_DIST_IN_RANGE

RangeRuns == {C \in SUBSET RangeRunChars : IsRun(C)}

PriorRanges == {<<>>, <<[index_first_child |-> 7, word_freq |-> 0]>>}

RangeInit ==
    /\ pc = "range"
    /\ NoProgram /\ NoFile /\ NoChars /\ NoPlan
    /\ \E C \in RangeRuns, W \in SUBSET RangeRunChars, prior \in PriorRanges :
          /\ W \subseteq C
          /\ args = [trie_ranges |-> prior,
                     nodes |-> [i \in 1..Cardinality(C) |->
                                  [letters |-> <<Ascending(C)[i]>>,
                                   freq |-> IF Ascending(C)[i] \in W THEN i ELSE 0,
                                   children |-> <<>>]],
                     range_chars |-> Ascending(C)]
    /\ ret = <<>>
    /\ shadow = <<>>

CallAddRange ==
    /\ pc = "range"
    /\ pc' = "added"
    /\ ret' = add_range(args.trie_ranges, args.nodes, args.range_chars)
    /\ UNCHANGED <<root, inserted, trie, searchVars, fileVars, charsVars, planVars,
                   args, shadow>>

SpecRange == RangeInit /\ [][CallAddRange]_vars

\* C29: the range built from single-character children of smallest
\* character m and largest M has M - m + 1 elements and first_char m; the
\* element at the offset c - m of a child character c holds the frequency
\* of this child, every other element has the child index and the
\* frequency unset, and the first and the last element are present.
C29_RangeElements ==
    pc = "added" =>
        LET m == args.range_chars[1]
            M == Last(args.range_chars)
            elem(k) == ret.ranges[ret.start + k + 1]
        IN /\ ret.start = Len(args.trie_ranges)
           /\ ret.end - ret.start = M - m + 1
           /\ Len(ret.ranges) = ret.end
           /\ SubSeq(ret.ranges, 1, ret.start) = args.trie_ranges
           /\ ret.first_char = m
           /\ \A i \in 1..Len(args.range_chars) :
                 /\ elem(args.range_chars[i] - m).word_freq = args.nodes[i].freq
                 /\ elem(args.range_chars[i] - m).index_first_child = dummy_index
           /\ \A k \in 0..(M - m) :
                 (\A i \in 1..Len(args.range_chars) : args.range_chars[i] # m + k)
                     => elem(k) = [index_first_child |-> 0, word_freq |-> 0]
           /\ elem(0).index_first_child # 0
           /\ elem(M - m).index_first_child # 0

\* The run 'a', 'd', 'e' added after an earlier range: 'b' and 'c' absent,
\* 'd' without frequency.
C29_Witness ==
    /\ pc = "added"
    /\ args.range_chars = <<97, 100, 101>>
    /\ args.trie_ranges # <<>>
    /\ args.nodes[2].freq = 0
    /\ args.nodes[3].freq = 3
    /\ ret.end - ret.start = 5


(***************************************************************************)
(* compare_keys and search_child on their own: the root layer compiled     *)
(* from a dictionary of one- and two-character words with distinct first   *)
(* characters, and a query character from just below the first key to just *)
(* above the last possible one.                                            *)
(***************************************************************************)
MaxKeySpan == 6
KeyChars == 97..(97 + MaxKeySpan)
QueryChars == 96..(97 + MaxKeySpan + 1)

\* One word per character of C, of two characters for those of P.
KeyWords(C, P) ==
    [i \in 1..Cardinality(C) |->
        IF Ascending(C)[i] \in P THEN <<Ascending(C)[i], 120>> ELSE <<Ascending(C)[i]>>]

ChildInit ==
    /\ pc = "child"
    /\ \E C \in SUBSET KeyChars, P \in SUBSET KeyChars :
          /\ C # {}
          /\ P \subseteq C
          /\ inserted = KeyWords(C, P)
    /\ root = insert_all(create_empty, inserted, 1)
    /\ trie = CompiledTrie_from(root)
    /\ entry = "none"
    /\ word = <<>>
    /\ dist_max = 0
    /\ iter_stack = <<>>
    /\ layer_stack = EmptyLayerStack
    /\ result_buffer = <<>>
    /\ output = <<>>
    /\ NoFile /\ NoChars /\ NoPlan
    /\ \E q \in QueryChars :
          args = [children |-> get_root_siblings(trie).slice, first_char |-> q]
    /\ ret = <<>>
    /\ shadow = <<>>

\* compare_keys on one node of the layer.
CallCompareKeys ==
    /\ pc = "child"
    /\ pc' = "compared_key"
    /\ \E i \in args.children.from..(args.children.to - 1) :
          ret' = [index |-> i,
                  cmp |-> compare_keys(trie.nodes[i + 1], args.first_char, trie)]
    /\ UNCHANGED <<root, inserted, trie, searchVars, fileVars, charsVars, planVars,
                   args, shadow>>

CallSearchChild ==
    /\ pc = "child"
    /\ pc' = "searched"
    /\ ret' = [index |-> search_child(args.children, args.first_char, trie)]
    /\ UNCHANGED <<root, inserted, trie, searchVars, fileVars, charsVars, planVars,
                   args, shadow>>

ChildNext == CallCompareKeys \/ CallSearchChild

SpecChild == ChildInit /\ [][ChildNext]_vars

PlainCmp(key, character) ==
    IF key < character THEN "Less" ELSE IF key = character THEN "Equal" ELSE "Greater"

\* What the comparator has to answer for a node and a query character.
ExpectedCmp(t, node, character) ==
    IF node_value(node) = "Range"
    THEN LET f == node.node_union.first_char
             n == node.node_union.end_index - node.node_union.start_index
         IN IF character < f THEN "Greater"
            ELSE IF character <= f + n - 1 THEN "Equal"
            ELSE "Less"
    ELSE IF node_value(node) = "Naive"
    THEN PlainCmp(node.node_union.character, character)
    ELSE PlainCmp(get_chars(t, patricia_range(node).start, patricia_range(node).end)[1],
                  character)

\* The nodes of the layer whose key covers the character.
MatchingSiblings(t, sl, character) ==
    {i \in sl.from..(sl.to - 1) :
        KeyLow(t, t.nodes[i + 1]) <= character /\ character <= KeyHigh(t, t.nodes[i + 1])}

\* C30: for a range node of first character f and n elements the
\* comparator answers Greater below f, Equal from f to f + n - 1 and Less
\* from f + n on; for a naive or substring node it is the comparison of the
\* key character of the node with the query character; and the binary
\* search over a sorted layer returns the matching sibling if there is one,
\* and nothing otherwise.
C30_ComparatorAndSearch ==
    /\ pc = "compared_key" =>
          ret.cmp = ExpectedCmp(trie, trie.nodes[ret.index + 1], args.first_char)
    /\ (pc = "searched" /\ IsSortedLayer(trie, args.children)) =>
          IF MatchingSiblings(trie, args.children, args.first_char) = {}
          THEN ret.index = -1
          ELSE ret.index \in MatchingSiblings(trie, args.children, args.first_char)

\* A layer of at least three nodes that begins with a range node, searched
\* for the character just past the range: the next sibling is found.
C30_Witness ==
    /\ pc = "searched"
    /\ SliceLen(args.children) >= 3
    /\ node_value(trie.nodes[args.children.from + 1]) = "Range"
    /\ args.first_char = KeyHigh(trie, trie.nodes[args.children.from + 1]) + 1
    /\ ret.index = args.children.from + 1

\* Every compiled root layer of these dictionaries is sorted.
ChildLayerSorted == pc = "searched" => IsSortedLayer(trie, args.children)

====
